---- MODULE Spec2Model ----
(***************************************************************************)
(* Model of the test orchestrator of the AWS security group module         *)
(* (Run_all_tests.py): TestRunner.run_all_phases and the four phase        *)
(* functions, cleanup, print_final_summary and main's exit code; and of    *)
(* the post-deployment validator (Validate_post_deployment.py):            *)
(* SecurityGroupPostDeploymentValidator.run_all_validations and the six    *)
(* validations it runs.                                                    *)
(*                                                                         *)
(* Spec and FairSpec run the orchestrator, VSpec runs the validator on     *)
(* expected configurations and security groups drawn from bounded sets.    *)
(*                                                                         *)
(* External collaborators (terraform, the validation scripts, pytest, the  *)
(* file system) are inputs: each action draws their outcome with \E.       *)
(* print() is taken as infallible.                                         *)
(***************************************************************************)
EXTENDS Integers, Sequences, FiniteSets, TLC

VARIABLES
    config,             \* self.config
    results,            \* self.results: phase -> [status, details]
    security_group_id,  \* self.security_group_id
    all_passed,         \* local all_passed of run_all_phases
    pc,                 \* position in run_all_phases / phase 3 / main
    returned,           \* phase -> what the call phase_func() produced
    entered,            \* phase functions called so far, in call order
    commands,           \* external commands issued so far, in order
    skip_note,          \* phase -> the "skipped" message it printed
    last_call,          \* the latest external process call and its result
    tool_failed,        \* phases one of whose process calls failed or timed out
    cleanup_calls,      \* number of calls of self.cleanup()
    cleanup_result,     \* what self.cleanup() returned
    summary_prints,     \* number of calls of print_final_summary
    banner,             \* verdict banner printed by print_final_summary
    exit_code,          \* argument of sys.exit in main
    expected_config,    \* validator: the expected configuration
    aws,                \* validator: the security group as deployed
    sg_details,         \* validator: self.sg_details
    validation_results, \* validator: self.validation_results
    v_results,          \* validator: the results list of run_all_validations
    v_pc,               \* validator: position in run_all_validations
    v_banner,           \* validator: verdict line printed by print_summary
    v_success,          \* validator: what run_all_validations returned
    t_pc,               \* integration tests: the test pytest runs next
    t_outcome,          \* integration tests: outcome of each test
    t_printed,          \* integration tests: warnings each test printed
    c_ingress,          \* config validator: the ingress rules it is given
    c_egress,           \* config validator: the egress rules it is given
    c_errors,           \* config validator: self.errors
    c_warnings,         \* config validator: self.warnings
    c_returned,         \* config validator: what each method returned
    c_printed,          \* config validator: print_summary was called
    f_skip_tools,       \* terraform validator: the --skip-tools flag of main
    f_pc,               \* terraform validator: the test run_all_tests calls next
    f_errors,           \* terraform validator: self.errors
    f_warnings,         \* terraform validator: self.warnings
    f_results,          \* terraform validator: results of run_all_tests, per test
    f_commands,         \* terraform validator: commands run so far, in order
    f_events,           \* terraform validator: what the tools did so far
    f_returned,         \* terraform validator: what run_all_tests returned
    f_exit              \* terraform validator: argument of sys.exit in main

ovars == <<config, results, security_group_id, all_passed, pc, returned,
           entered, commands, skip_note, last_call, tool_failed,
           cleanup_calls, cleanup_result, summary_prints, banner, exit_code>>

vvars == <<expected_config, aws, sg_details, validation_results, v_results,
           v_pc, v_banner, v_success>>

tvars == <<t_pc, t_outcome, t_printed>>

cvars == <<c_ingress, c_egress, c_errors, c_warnings, c_returned, c_printed>>

fvars == <<f_skip_tools, f_pc, f_errors, f_warnings, f_results, f_commands,
           f_events, f_returned, f_exit>>

vars == <<ovars, vvars, tvars, cvars, fvars>>

----------------------------------------------------------------------------
(* Bounds *)

\* largest number of failed tests a pytest report may carry
MaxFailed == 2

----------------------------------------------------------------------------
(* Data *)

Phases == <<"pre_deployment", "terraform_test", "integration_test",
            "post_deployment">>

PhaseSet == {Phases[i] : i \in 1..Len(Phases)}

PhaseIndex(p) == CHOOSE i \in 1..Len(Phases) : Phases[i] = p

Terminal == {"passed", "failed", "skipped"}

\* values of self.security_group_id: Python None, the empty string, an id
None == "None"

\* ways an external command can end
Outcomes == {"ok", "nonzero", "timeout", "oserror"}

\* run_command: returncode and stderr of the (returncode, stdout, stderr)
\* tuple; the call is wrapped in try/except and never raises
run_command(o) ==
    CASE o = "ok"      -> [returncode |-> 0, stderr |-> "", raised |-> FALSE]
      [] o = "nonzero" -> [returncode |-> 2, stderr |-> "error", raised |-> FALSE]
      [] o = "timeout" -> [returncode |-> 1, stderr |-> "Command timed out",
                           raised |-> FALSE]
      [] o = "oserror" -> [returncode |-> 1, stderr |-> "str(e)", raised |-> FALSE]

\* exit codes of a pytest process: all passed, tests failed or errored,
\* command line usage error
PytestCodes == {0, 1, 4}

\* the bare subprocess.run of step 3.5: no timeout argument and no
\* try/except, so a process that cannot be launched raises and a slow process
\* is waited for and hands back its own exit code
subprocess_run(o, code) ==
    CASE o = "ok"      -> [returncode |-> 0, stderr |-> "", raised |-> FALSE]
      [] o = "nonzero" -> [returncode |-> IF code = 0 THEN 1 ELSE code,
                           stderr |-> "error", raised |-> FALSE]
      [] o = "timeout" -> [returncode |-> code, stderr |-> "", raised |-> FALSE]
      [] o = "oserror" -> [returncode |-> -1, stderr |-> "", raised |-> TRUE]

Configs == [run_pre_deployment : BOOLEAN, run_terraform_tests : BOOLEAN,
            run_integration_tests : BOOLEAN, run_post_deployment : BOOLEAN,
            cleanup : BOOLEAN, fail_fast : BOOLEAN]

\* PhaseEnabled reading the wrong key for the last phase
PhaseEnabled_WrongKey(p) ==
    CASE p = "pre_deployment"   -> config.run_pre_deployment
      [] p = "terraform_test"   -> config.run_terraform_tests
      [] p = "integration_test" -> config.run_integration_tests
      [] p = "post_deployment"  -> config.run_integration_tests

\* the config check at the head of each phase function
PhaseEnabled(p) ==
    CASE p = "pre_deployment"   -> config.run_pre_deployment
      [] p = "terraform_test"   -> config.run_terraform_tests
      [] p = "integration_test" -> config.run_integration_tests
      [] p = "post_deployment"  -> config.run_post_deployment

Cmd(p, c) == [phase |-> p, cmd |-> c]

NoCallYet ==
    [phase |-> "none", cmd |-> "none", outcome |-> "ok", returncode |-> 0,
     stderr |-> "", raised |-> FALSE]

\* a process call made by p: c is logged, last_call keeps how the process
\* ended (o) and what the call handed back (r), and p is recorded when the
\* invocation failed (nonzero exit) or timed out
Call(p, c, o, r) ==
    /\ commands' = Append(commands, Cmd(p, c))
    /\ last_call' = [phase |-> p, cmd |-> c, outcome |-> o,
                     returncode |-> r.returncode, stderr |-> r.stderr,
                     raised |-> r.raised]
    /\ tool_failed' = IF ~r.raised /\ (r.returncode # 0 \/ o = "timeout")
                      THEN tool_failed \cup {p}
                      ELSE tool_failed

NoCall == UNCHANGED <<commands, last_call, tool_failed>>

----------------------------------------------------------------------------
(* Data of the validator *)

\* the unrestricted source and a restricted one
Open == "0.0.0.0/0"
Private == "10.0.0.0/8"

\* Python None where a port is expected
NoPort == -1

\* d.get(k, default) on a dict
Get(d, k, default) == IF k \in DOMAIN d THEN d[k] ELSE default

\* set(list)
SeqToSet(s) == {s[i] : i \in DOMAIN s}

SeqsUpTo(S, n) == UNION {[1..k -> S] : k \in 0..n}

Indices(n) == [i \in 1..n |-> i]

Ranges(cidrs) == [i \in DOMAIN cidrs |-> [CidrIp |-> cidrs[i]]]

\* main's minimal expected configuration
MinimalConfig == [ingress_rules |-> <<>>, egress_rules |-> <<>>, tags |-> <<>>]

NoResults == [passed |-> <<>>, failed |-> <<>>, warnings |-> <<>>]

\* the validator before it is constructed
ValidatorIdle ==
    /\ expected_config = MinimalConfig
    /\ aws = None
    /\ sg_details = None
    /\ validation_results = NoResults
    /\ v_results = <<>>
    /\ v_pc = "idle"
    /\ v_banner = "none"
    /\ v_success = "none"

\* the integration tests before pytest collects them
Tests == <<"test_ssh_ingress_rule_restricted",
           "test_no_unrestricted_ingress_on_sensitive_ports",
           "test_no_overly_permissive_ingress">>

TestSet == {Tests[i] : i \in DOMAIN Tests}

TestsIdle ==
    /\ t_pc = "idle"
    /\ t_outcome = [t \in TestSet |-> "none"]
    /\ t_printed = [t \in TestSet |-> <<>>]

\* the terraform validator before main constructs it
TerraformIdle ==
    /\ f_skip_tools = FALSE
    /\ f_pc = "idle"
    /\ f_errors = <<>>
    /\ f_warnings = <<>>
    /\ f_results = <<>>
    /\ f_commands = <<>>
    /\ f_events = {}
    /\ f_returned = "none"
    /\ f_exit = -1

\* the config validator before it is constructed
ConfigIdle ==
    /\ c_ingress = <<>>
    /\ c_egress = <<>>
    /\ c_errors = <<>>
    /\ c_warnings = <<>>
    /\ c_returned = [m \in {"validate_ingress_rules", "validate_egress_rules"}
                         |-> "none"]
    /\ c_printed = FALSE

----------------------------------------------------------------------------
(* TestRunner.__init__ *)

Init ==
    /\ TerraformIdle
    /\ ValidatorIdle
    /\ TestsIdle
    /\ ConfigIdle
    /\ config \in Configs
    /\ results = [p \in PhaseSet |-> [status |-> "pending", details |-> <<>>]]
    /\ security_group_id = None
    /\ all_passed = TRUE
    /\ pc = "phase_1"
    /\ returned = [p \in PhaseSet |-> "none"]
    /\ entered = <<>>
    /\ commands = <<>>
    /\ skip_note = [p \in PhaseSet |-> "none"]
    /\ last_call = NoCallYet
    /\ tool_failed = {}
    /\ cleanup_calls = 0
    /\ cleanup_result = "none"
    /\ summary_prints = 0
    /\ banner = "none"
    /\ exit_code = -1

----------------------------------------------------------------------------
(* run_all_phases: the for loop over the phases *)

\* PhasePc leaving the loop straight for the summary
PhasePc_SkipTeardown(i) ==
    CASE i = 1 -> "phase_1"
      [] i = 2 -> "phase_2"
      [] i = 3 -> "phase_3"
      [] i = 4 -> "phase_4"
      [] OTHER -> "summary"

PhasePc(i) ==
    CASE i = 1 -> "phase_1"
      [] i = 2 -> "phase_2"
      [] i = 3 -> "phase_3"
      [] i = 4 -> "phase_4"
      [] OTHER -> "cleanup"

\* NextPc without the break under fail_fast
NextPc_NoBreak(i, result) == PhasePc(i + 1)

\* NextPc with the exception handler missing: the exception leaves the loop
\* and run_all_phases
NextPc_Propagate(i, result) ==
    IF result = "raised" THEN "propagated"
    ELSE IF result # "True" /\ config.fail_fast THEN "cleanup"
    ELSE PhasePc(i + 1)

\* NextPc over a phase list with phases 2 and 3 exchanged
NextPc_Swapped(i, result) ==
    IF result # "True" /\ config.fail_fast THEN "cleanup"
    ELSE CASE i = 1 -> "phase_3"
           [] i = 3 -> "phase_2"
           [] i = 2 -> "phase_4"
           [] OTHER -> "cleanup"

\* where the loop goes after phase i produced result ("True", "False" or
\* "raised"): break under fail_fast, else the next phase
NextPc(i, result) ==
    IF result # "True" /\ config.fail_fast THEN "cleanup" ELSE PhasePc(i + 1)

\* AllPassedAfter with an exception handler that forgets all_passed = False
AllPassedAfter_IgnoreRaise(result) == all_passed /\ result # "False"

\* all_passed after a phase produced result
AllPassedAfter(result) == all_passed /\ result = "True"

\* the body of one loop iteration once phase_func() has produced result
LoopStep(i, result) ==
    /\ all_passed' = AllPassedAfter(result)
    /\ returned' = [returned EXCEPT ![Phases[i]] = result]
    /\ pc' = NextPc(i, result)

SetStatus(p, s) == [results EXCEPT ![p].status = s]

SetResult(p, s, d) ==
    [results EXCEPT ![p] = [status |-> s, details |-> Append(@.details, d)]]

Untouched == UNCHANGED <<config, cleanup_calls, cleanup_result,
                         summary_prints, banner, exit_code, vvars, tvars, cvars, fvars>>

----------------------------------------------------------------------------
(* phase_1_pre_deployment_validation *)

Note(p, n) == [skip_note EXCEPT ![p] = n]

Phase1(o) ==
    LET p == "pre_deployment" rc == run_command(o).returncode IN
    /\ pc = "phase_1"
    /\ entered' = Append(entered, p)
    /\ IF ~PhaseEnabled(p)
       THEN /\ results' = SetStatus(p, "skipped")
            /\ skip_note' = Note(p, "disabled in config")
            /\ NoCall
            /\ LoopStep(1, "True")
       ELSE /\ Call(p, "validate_terraform.py", o, run_command(o))
            /\ skip_note' = skip_note
            /\ IF rc = 0
               THEN /\ results' = SetResult(p, "passed", "All validations passed")
                    /\ LoopStep(1, "True")
               ELSE /\ results' = SetResult(p, "failed", "Validation failed")
                    /\ LoopStep(1, "False")
    /\ UNCHANGED security_group_id
    /\ Untouched

----------------------------------------------------------------------------
(* phase_2_terraform_native_tests *)

\* what os.listdir('tests') does: raises (no such directory), or lists a
\* directory without / with .tftest.hcl files
Listings == {"raise", "no_tftest", "tftest"}

Phase2(listing, o) ==
    LET p == "terraform_test" rc == run_command(o).returncode IN
    /\ pc = "phase_2"
    /\ entered' = Append(entered, p)
    /\ IF ~PhaseEnabled(p)
       THEN /\ results' = SetStatus(p, "skipped")
            /\ skip_note' = Note(p, "disabled in config")
            /\ NoCall
            /\ LoopStep(2, "True")
       ELSE IF listing = "raise"
       THEN /\ results' = results
            /\ skip_note' = skip_note
            /\ NoCall
            /\ LoopStep(2, "raised")
       ELSE IF listing = "no_tftest"
       THEN /\ results' = SetStatus(p, "skipped")
            /\ skip_note' = Note(p, "No .tftest.hcl files found")
            /\ NoCall
            /\ LoopStep(2, "True")
       ELSE /\ Call(p, "terraform test", o, run_command(o))
            /\ skip_note' = skip_note
            /\ IF rc = 0
               THEN /\ results' = SetResult(p, "passed", "All Terraform tests passed")
                    /\ LoopStep(2, "True")
               ELSE /\ results' = SetResult(p, "failed", "Terraform tests failed")
                    /\ LoopStep(2, "False")
    /\ UNCHANGED security_group_id
    /\ Untouched

----------------------------------------------------------------------------
(* phase_3_deploy_and_integration_test, one action per step *)

P3 == "integration_test"

\* entry check and step 3.1, terraform init
Phase3Init(o) ==
    LET rc == run_command(o).returncode IN
    /\ pc = "phase_3"
    /\ entered' = Append(entered, P3)
    /\ IF ~PhaseEnabled(P3)
       THEN /\ results' = SetStatus(P3, "skipped")
            /\ skip_note' = Note(P3, "disabled in config")
            /\ NoCall
            /\ LoopStep(3, "True")
       ELSE /\ Call(P3, "terraform init", o, run_command(o))
            /\ skip_note' = skip_note
            /\ IF rc # 0
               THEN /\ results' = SetStatus(P3, "failed")
                    /\ LoopStep(3, "False")
               ELSE /\ results' = results
                    /\ pc' = "p3_plan"
                    /\ UNCHANGED <<all_passed, returned>>
    /\ UNCHANGED security_group_id
    /\ Untouched

\* ProvisionStep marking the phase passed as soon as the step succeeded
ProvisionStep_EarlyPass(at, cmd, next, o) ==
    LET rc == run_command(o).returncode IN
    /\ pc = at
    /\ Call(P3, cmd, o, run_command(o))
    /\ IF rc # 0
       THEN /\ results' = SetStatus(P3, "failed")
            /\ LoopStep(3, "False")
       ELSE /\ results' = SetStatus(P3, "passed")
            /\ pc' = next
            /\ UNCHANGED <<all_passed, returned>>
    /\ UNCHANGED <<security_group_id, entered, skip_note>>
    /\ Untouched

\* ProvisionStep going on to the next step whatever the return code
ProvisionStep_NoAbort(at, cmd, next, o) ==
    LET rc == run_command(o).returncode IN
    /\ pc = at
    /\ Call(P3, cmd, o, run_command(o))
    /\ results' = IF rc # 0 THEN SetStatus(P3, "failed") ELSE results
    /\ pc' = next
    /\ UNCHANGED <<all_passed, returned>>
    /\ UNCHANGED <<security_group_id, entered, skip_note>>
    /\ Untouched

\* a provisioning step that aborts the phase on a nonzero return code
ProvisionStep(at, cmd, next, o) ==
    LET rc == run_command(o).returncode IN
    /\ pc = at
    /\ Call(P3, cmd, o, run_command(o))
    /\ IF rc # 0
       THEN /\ results' = SetStatus(P3, "failed")
            /\ LoopStep(3, "False")
       ELSE /\ results' = results
            /\ pc' = next
            /\ UNCHANGED <<all_passed, returned>>
    /\ UNCHANGED <<security_group_id, entered, skip_note>>
    /\ Untouched

\* step 3.2
Phase3Plan(o) == ProvisionStep("p3_plan", "terraform plan", "p3_apply", o)

\* step 3.3
Phase3Apply(o) == ProvisionStep("p3_apply", "terraform apply", "p3_output", o)

\* what the stdout of terraform output -json parses to: not JSON, JSON that
\* is not an object of objects, an object without security_group_id, with
\* an empty one, with an id
OutputKinds == {"invalid_json", "not_object", "no_id", "empty_id", "id"}

OutputId(kind) ==
    CASE kind = "no_id"    -> None
      [] kind = "empty_id" -> ""
      [] kind = "id"       -> "sg-0abc"

\* step 3.4, terraform output and outputs.json
Phase3Output(o, kind, write_ok) ==
    LET rc == run_command(o).returncode IN
    /\ pc = "p3_output"
    /\ Call(P3, "terraform output", o, run_command(o))
    /\ IF rc # 0
       THEN /\ pc' = "p3_tests"
            /\ UNCHANGED <<security_group_id, all_passed, returned>>
       ELSE IF kind \in {"invalid_json", "not_object"}
       THEN /\ LoopStep(3, "raised")
            /\ UNCHANGED security_group_id
       ELSE /\ security_group_id' = OutputId(kind)
            /\ IF write_ok
               THEN /\ pc' = "p3_tests"
                    /\ UNCHANGED <<all_passed, returned>>
               ELSE LoopStep(3, "raised")
    /\ UNCHANGED <<results, entered, skip_note>>
    /\ Untouched

\* what reading test-report.json gives: no file, a file that does not parse
\* or lacks 'summary', a report
Reports == {"missing", "malformed", "report"}

\* the reports a pytest process ending with exit code code can leave: a run
\* that ended with 0 or 1 had the report plugin loaded and wrote a fresh
\* report, with no failed test when the code is 0 (tests that errored are
\* counted under 'error', not 'failed'); after a usage error the file is
\* whatever was there before
ReportPossible(code, report, failed) ==
    /\ code \in {0, 1} => report = "report"
    /\ code = 0 => failed = 0

FailedDetail(failed) == ToString(failed) \o " test(s) failed"

\* step 3.5, pytest and test-report.json
Phase3Tests(o, code, report, failed) ==
    LET r == subprocess_run(o, code) IN
    /\ pc = "p3_tests"
    /\ r.raised \/ ReportPossible(r.returncode, report, failed)
    /\ Call(P3, "pytest", o, r)
    /\ IF r.raised
       THEN /\ results' = results
            /\ LoopStep(3, "raised")
       ELSE IF report = "report" /\ failed > 0
       THEN /\ results' = SetResult(P3, "failed", FailedDetail(failed))
            /\ LoopStep(3, "False")
       ELSE /\ results' = SetResult(P3, "passed", "All integration tests passed")
            /\ LoopStep(3, "True")
    /\ UNCHANGED <<security_group_id, entered, skip_note>>
    /\ Untouched

----------------------------------------------------------------------------
(* phase_4_post_deployment_validation *)

\* Truthy taking only None as false
Truthy_NotNone(v) == v # None

\* Python truth value of self.security_group_id
Truthy(v) == v \notin {None, ""}

Phase4(o) ==
    LET p == "post_deployment" rc == run_command(o).returncode IN
    /\ pc = "phase_4"
    /\ entered' = Append(entered, p)
    /\ IF ~PhaseEnabled(p)
       THEN /\ results' = SetStatus(p, "skipped")
            /\ skip_note' = Note(p, "disabled in config")
            /\ NoCall
            /\ LoopStep(4, "True")
       ELSE IF ~Truthy(security_group_id)
       THEN /\ results' = SetStatus(p, "skipped")
            /\ skip_note' = Note(p, "no security group deployed")
            /\ NoCall
            /\ LoopStep(4, "True")
       ELSE /\ Call(p, "validate_post_deployment.py", o, run_command(o))
            /\ skip_note' = skip_note
            /\ IF rc = 0
               THEN /\ results' = SetResult(p, "passed", "Post-deployment validation passed")
                    /\ LoopStep(4, "True")
               ELSE /\ results' = SetResult(p, "failed", "Post-deployment validation failed")
                    /\ LoopStep(4, "False")
    /\ UNCHANGED security_group_id
    /\ Untouched

----------------------------------------------------------------------------
(* run_all_phases after the loop: cleanup, summary, return; main *)

\* CleanupEnabled tearing down only after a successful run
CleanupEnabled_OnSuccess == config.cleanup /\ all_passed

\* the guard of the cleanup call in run_all_phases
CleanupEnabled == config.cleanup

\* VerdictAfterCleanup folding the result of cleanup() into the verdict
VerdictAfterCleanup_Strict(rc) == all_passed /\ rc = 0

\* the value run_all_phases returns once cleanup() returned returncode rc
VerdictAfterCleanup(rc) == all_passed

\* self.cleanup(), called with cleanup enabled: terraform destroy
Cleanup(o) ==
    LET rc == run_command(o).returncode IN
    /\ pc = "cleanup"
    /\ CleanupEnabled
    /\ cleanup_calls' = cleanup_calls + 1
    /\ IF config.cleanup
       THEN Call("cleanup", "terraform destroy", o, run_command(o))
       ELSE NoCall
    /\ cleanup_result' = IF ~config.cleanup \/ rc = 0 THEN "True" ELSE "False"
    /\ all_passed' = VerdictAfterCleanup(rc)
    /\ pc' = "summary"
    /\ UNCHANGED <<config, results, security_group_id, returned, entered,
                   skip_note, summary_prints, banner, exit_code, vvars, tvars, cvars, fvars>>

NoCleanup ==
    /\ pc = "cleanup"
    /\ ~CleanupEnabled
    /\ pc' = "summary"
    /\ UNCHANGED <<config, results, security_group_id, all_passed, returned,
                   entered, commands, skip_note, last_call, tool_failed,
                   cleanup_calls, cleanup_result,
                   summary_prints, banner, exit_code, vvars, tvars, cvars, fvars>>

failed_phases == {p \in PhaseSet : results[p].status = "failed"}

print_final_summary ==
    /\ pc = "summary"
    /\ summary_prints' = summary_prints + 1
    /\ banner' = IF failed_phases = {} THEN "ALL TESTS PASSED" ELSE "TESTS FAILED"
    /\ pc' = "return"
    /\ UNCHANGED <<config, results, security_group_id, all_passed, returned,
                   entered, commands, skip_note, last_call, tool_failed,
                   cleanup_calls, cleanup_result,
                   exit_code, vvars, tvars, cvars, fvars>>

\* run_all_phases returns all_passed; main exits with 0 if it is True, else 1
ExitCode(success) == IF success THEN 0 ELSE 1

main ==
    /\ pc = "return"
    /\ exit_code' = ExitCode(all_passed)
    /\ pc' = "exited"
    /\ UNCHANGED <<config, results, security_group_id, all_passed, returned,
                   entered, commands, skip_note, last_call, tool_failed,
                   cleanup_calls, cleanup_result,
                   summary_prints, banner, vvars, tvars, cvars, fvars>>

----------------------------------------------------------------------------
(* Inputs of the validator: expected rules, deployed rules, tags *)

MaxExpected == 2
MaxObserved == 2

\* expected rules as the configuration writes them
e_https     == [protocol |-> "tcp", from_port |-> 443, to_port |-> 443,
                cidr_blocks |-> <<Open>>]
e_https_two == [protocol |-> "tcp", from_port |-> 443, to_port |-> 443,
                cidr_blocks |-> <<Open, Private>>]
e_https_rep == [protocol |-> "tcp", from_port |-> 443, to_port |-> 443,
                cidr_blocks |-> <<Open, Open>>]
e_https_any == [protocol |-> "tcp", from_port |-> 443, to_port |-> 443]
e_all_out   == [protocol |-> "-1", from_port |-> 0, to_port |-> 0,
                cidr_blocks |-> <<Open>>]

\* rules as describe_security_groups returns them
o_https     == [IpProtocol |-> "tcp", FromPort |-> 443, ToPort |-> 443,
                IpRanges |-> Ranges(<<Open>>)]
o_https_two == [IpProtocol |-> "tcp", FromPort |-> 443, ToPort |-> 443,
                IpRanges |-> Ranges(<<Private, Open>>)]
o_ssh       == [IpProtocol |-> "tcp", FromPort |-> 22, ToPort |-> 22,
                IpRanges |-> Ranges(<<Open>>)]
o_low       == [IpProtocol |-> "tcp", FromPort |-> 0, ToPort |-> 1024,
                IpRanges |-> Ranges(<<Open>>)]
o_all       == [IpProtocol |-> "-1", IpRanges |-> Ranges(<<Open>>)]
o_all_private == [IpProtocol |-> "-1", IpRanges |-> Ranges(<<Private>>)]

ExpectedIngress == {e_https, e_https_two, e_https_rep, e_https_any}
ObservedIngress == {o_https, o_https_two, o_ssh, o_low, o_all, o_all_private}
ExpectedEgress  == {e_all_out, e_https, e_https_any}
ObservedEgress  == {o_all, o_https, o_https_two}

DeployedGroup == [GroupId |-> "sg-0abc", GroupName |-> "web-sg",
                  Description |-> "Web tier", VpcId |-> "vpc-1",
                  IpPermissions |-> <<>>, IpPermissionsEgress |-> <<>>,
                  Tags |-> <<>>]

Tag(k, v) == [Key |-> k, Value |-> v]

ExpectedTags ==
    { <<>>, <<Tag("Environment", "prod")>>, <<Tag("ManagedBy", "terraform")>>,
      <<Tag("Environment", "prod"), Tag("ManagedBy", "terraform")>>,
      <<Tag("ManagedBy", "terraform"), Tag("Environment", "prod")>> }

TagChoices(k, vs) == {<<>>} \cup {<<Tag(k, v)>> : v \in vs}

ObservedTags ==
    { a \o b \o c : a \in TagChoices("Environment", {"prod", "staging", ""}),
                    b \in TagChoices("ManagedBy", {"terraform", "manual"}),
                    c \in TagChoices("Owner", {"ops"}) }

\* the inputs, one family per validation
IngressInputs ==
    { <<[MinimalConfig EXCEPT !.ingress_rules = e],
        [DeployedGroup EXCEPT !.IpPermissions = o]>> :
        e \in SeqsUpTo(ExpectedIngress, MaxExpected),
        o \in SeqsUpTo(ObservedIngress, MaxObserved) }

EgressInputs ==
    { <<[MinimalConfig EXCEPT !.egress_rules = e],
        [DeployedGroup EXCEPT !.IpPermissionsEgress = o]>> :
        e \in SeqsUpTo(ExpectedEgress, MaxExpected),
        o \in SeqsUpTo(ObservedEgress, MaxObserved) }

TagInputs ==
    { <<[MinimalConfig EXCEPT !.tags = e], [DeployedGroup EXCEPT !.Tags = o]>> :
        e \in ExpectedTags, o \in ObservedTags }

BasicInputs ==
    { <<[vpc_id |-> "vpc-1", security_group_name |-> n,
         description |-> "Web tier",
         ingress_rules |-> <<>>, egress_rules |-> <<>>, tags |-> <<>>],
        [DeployedGroup EXCEPT !.VpcId = v, !.GroupName = g,
                              !.Description = d]>> :
        n \in {"web", "web-sg"}, v \in {"vpc-1", "vpc-2"},
        g \in {"web-sg", "db-sg"}, d \in {"Web tier", "Web"} }

ValidatorInputs == IngressInputs \cup EgressInputs \cup TagInputs \cup BasicInputs

----------------------------------------------------------------------------
(* SecurityGroupPostDeploymentValidator.__init__ with main's arguments *)

VInit ==
    /\ TerraformIdle
    /\ config = [run_pre_deployment |-> TRUE, run_terraform_tests |-> TRUE,
                 run_integration_tests |-> TRUE, run_post_deployment |-> TRUE,
                 cleanup_after_tests |-> TRUE]
    /\ results = [p \in PhaseSet |-> [status |-> "pending", details |-> ""]]
    /\ security_group_id = "sg-0abc"
    /\ all_passed = TRUE
    /\ pc = "validator"
    /\ returned = [p \in PhaseSet |-> "none"]
    /\ entered = <<>>
    /\ commands = <<>>
    /\ skip_note = [p \in PhaseSet |-> "none"]
    /\ last_call = NoCallYet
    /\ tool_failed = {}
    /\ cleanup_calls = 0
    /\ cleanup_result = "none"
    /\ summary_prints = 0
    /\ banner = "none"
    /\ exit_code = -1
    /\ \E in \in ValidatorInputs :
          /\ expected_config = in[1]
          /\ aws = in[2]
    /\ sg_details = None
    /\ validation_results = NoResults
    /\ v_results = <<>>
    /\ v_pc = "fetch"
    /\ v_banner = "none"
    /\ v_success = "none"
    /\ TestsIdle
    /\ ConfigIdle

\* one validation of run_all_validations' list: its appends and its result
Validation(next, res, ret) ==
    /\ validation_results' = res
    /\ v_results' = Append(v_results, ret)
    /\ v_pc' = next
    /\ UNCHANGED <<expected_config, aws, sg_details, v_banner, v_success, ovars, tvars, cvars, fvars>>

NoFailure_NoWarnings(res) == Len(res.failed) = 0 /\ Len(res.warnings) = 0

\* len(self.validation_results['failed']) == 0
NoFailure(res) == Len(res.failed) = 0

----------------------------------------------------------------------------
(* fetch_security_group *)

fetch_security_group(found) ==
    /\ v_pc = "fetch"
    /\ IF found
          THEN /\ sg_details' = aws
               /\ v_pc' = "basic"
               /\ UNCHANGED v_success
          ELSE /\ v_pc' = "returned"
               /\ v_success' = "False"
               /\ UNCHANGED sg_details
    /\ UNCHANGED <<expected_config, aws, validation_results, v_results,
                   v_banner, ovars, tvars, cvars, fvars>>

----------------------------------------------------------------------------
(* validate_basic_properties *)

\* a in b, for the names the inputs use
IsSubstring(a, b) == a = b \/ <<a, b>> \in {<<"web", "web-sg">>}

basic_vpc(res) ==
    IF "vpc_id" \notin DOMAIN expected_config THEN res
    ELSE IF expected_config.vpc_id = Get(sg_details, "VpcId", None)
         THEN [res EXCEPT !.passed = Append(@, <<"VPC ID matches">>)]
         ELSE [res EXCEPT !.failed = Append(@, <<"VPC mismatch">>)]

basic_name(res) ==
    IF "security_group_name" \notin DOMAIN expected_config THEN res
    ELSE LET expected_name == expected_config.security_group_name
             actual_name   == sg_details.GroupName
         IN  IF IsSubstring(expected_name, actual_name)
                \/ IsSubstring(actual_name, expected_name)
             THEN [res EXCEPT !.passed = Append(@, <<"Name matches">>)]
             ELSE [res EXCEPT !.failed = Append(@, <<"Name mismatch">>)]

basic_description(res) ==
    IF "description" \notin DOMAIN expected_config THEN res
    ELSE IF expected_config.description = Get(sg_details, "Description", None)
         THEN [res EXCEPT !.passed = Append(@, <<"Description matches">>)]
         ELSE [res EXCEPT !.warnings = Append(@, <<"Description differs">>)]

validate_basic_properties ==
    /\ v_pc = "basic"
    /\ LET res == basic_description(basic_name(basic_vpc(validation_results)))
       IN  Validation("ingress", res, NoFailure(res))

----------------------------------------------------------------------------
(* validate_ingress_rules, _find_matching_ingress_rule *)

\* [ip['CidrIp'] for ip in rule.get('IpRanges', [])]
rule_cidrs(rule) ==
    LET ranges == Get(rule, "IpRanges", <<>>)
    IN  [i \in DOMAIN ranges |-> ranges[i].CidrIp]

CidrsMatch_Subset(expected, rule) ==
    "cidr_blocks" \in DOMAIN expected
        => SeqToSet(expected.cidr_blocks) \subseteq SeqToSet(rule_cidrs(rule))

\* the CIDR comparison, made only when the expected rule has cidr_blocks
CidrsMatch(expected, rule) ==
    "cidr_blocks" \in DOMAIN expected
        => SeqToSet(rule_cidrs(rule)) = SeqToSet(expected.cidr_blocks)

\* one pass of the loop body: TRUE when it returns True at this rule
IngressRuleMatches(expected, rule) ==
    /\ Get(rule, "IpProtocol", None) = Get(expected, "protocol", None)
    /\ Get(rule, "FromPort", NoPort) = Get(expected, "from_port", NoPort)
    /\ Get(rule, "ToPort", NoPort) = Get(expected, "to_port", NoPort)
    /\ CidrsMatch(expected, rule)

find_matching_ingress_rule_First(expected, actual_rules) ==
    actual_rules # <<>> /\ IngressRuleMatches(expected, actual_rules[1])

find_matching_ingress_rule(expected, actual_rules) ==
    \E i \in DOMAIN actual_rules : IngressRuleMatches(expected, actual_rules[i])

ingress_found(expected_rules, actual_rules) ==
    LET Found(i) == find_matching_ingress_rule(expected_rules[i], actual_rules)
        idx      == SelectSeq(Indices(Len(expected_rules)), Found)
    IN  [k \in DOMAIN idx |->
            <<"Ingress rule found", idx[k], expected_rules[idx[k]].protocol,
              expected_rules[idx[k]].from_port, expected_rules[idx[k]].to_port>>]

ingress_not_found(expected_rules, actual_rules) ==
    LET Missing(i) == ~find_matching_ingress_rule(expected_rules[i], actual_rules)
        idx        == SelectSeq(Indices(Len(expected_rules)), Missing)
    IN  [k \in DOMAIN idx |->
            <<"Ingress rule not found", idx[k], expected_rules[idx[k]]>>]

additional_ingress(expected_rules, actual_rules) ==
    IF Len(actual_rules) > Len(expected_rules)
    THEN << <<"additional ingress rule(s) found",
              Len(actual_rules) - Len(expected_rules)>> >>
    ELSE <<>>

validate_ingress_rules ==
    /\ v_pc = "ingress"
    /\ LET expected_rules == Get(expected_config, "ingress_rules", <<>>)
           actual_rules   == Get(sg_details, "IpPermissions", <<>>)
           res == [passed   |-> validation_results.passed
                                \o ingress_found(expected_rules, actual_rules),
                   failed   |-> validation_results.failed
                                \o ingress_not_found(expected_rules, actual_rules),
                   warnings |-> validation_results.warnings
                                \o additional_ingress(expected_rules, actual_rules)]
       IN  Validation("egress", res, NoFailure(res))

----------------------------------------------------------------------------
(* validate_egress_rules, _find_matching_egress_rule *)

EgressRuleMatches(expected, rule) ==
    /\ Get(rule, "IpProtocol", None) = Get(expected, "protocol", None)
    /\ Get(rule, "FromPort", NoPort) = Get(expected, "from_port", NoPort)
    /\ Get(rule, "ToPort", NoPort) = Get(expected, "to_port", NoPort)
    /\ "cidr_blocks" \in DOMAIN expected
          => SeqToSet(rule_cidrs(rule)) = SeqToSet(expected.cidr_blocks)

find_matching_egress_rule(expected, actual_rules) ==
    \E i \in DOMAIN actual_rules : EgressRuleMatches(expected, actual_rules[i])

egress_found(expected_rules, actual_rules) ==
    LET Found(i) == find_matching_egress_rule(expected_rules[i], actual_rules)
        idx      == SelectSeq(Indices(Len(expected_rules)), Found)
    IN  [k \in DOMAIN idx |-> <<"Egress rule found", idx[k]>>]

egress_not_found(expected_rules, actual_rules) ==
    LET Missing(i) == ~find_matching_egress_rule(expected_rules[i], actual_rules)
        idx        == SelectSeq(Indices(Len(expected_rules)), Missing)
    IN  [k \in DOMAIN idx |->
            <<"Egress rule not found", idx[k], expected_rules[idx[k]]>>]

validate_egress_rules ==
    /\ v_pc = "egress"
    /\ LET expected_rules == Get(expected_config, "egress_rules", <<>>)
           actual_rules   == Get(sg_details, "IpPermissionsEgress", <<>>)
           res == [passed   |-> validation_results.passed
                                \o egress_found(expected_rules, actual_rules),
                   failed   |-> validation_results.failed
                                \o egress_not_found(expected_rules, actual_rules),
                   warnings |-> validation_results.warnings]
       IN  Validation("tags", res, NoFailure(res))

----------------------------------------------------------------------------
(* validate_tags *)

RECURSIVE Flatten(_)
Flatten(ss) == IF ss = <<>> THEN <<>> ELSE Head(ss) \o Flatten(Tail(ss))

\* actual_tags.get(key) on the dict built from the Tags list
actual_tag(tags, key) ==
    LET at == {i \in DOMAIN tags : tags[i].Key = key}
    IN  IF at = {} THEN None
        ELSE tags[CHOOSE i \in at : \A j \in at : j <= i].Value

tag_verdict_Strict(tags, expected) ==
    IF actual_tag(tags, expected.Key) = expected.Value THEN "passed"
    ELSE "failed"

tag_verdict(tags, expected) ==
    LET actual_value == actual_tag(tags, expected.Key)
    IN  IF actual_value = expected.Value THEN "passed"
        ELSE IF actual_value \notin {None, ""} THEN "warnings"
        ELSE "failed"

tag_messages(tags, expected_tags, list) ==
    LET In(i) == tag_verdict(tags, expected_tags[i]) = list
        idx   == SelectSeq(Indices(Len(expected_tags)), In)
        text  == CASE list = "passed"   -> "Tag matches"
                   [] list = "warnings" -> "Tag differs"
                   [] list = "failed"   -> "Tag missing"
    IN  [k \in DOMAIN idx |-> <<text, expected_tags[idx[k]].Key>>]

validate_tags ==
    /\ v_pc = "tags"
    /\ LET expected_tags == Get(expected_config, "tags", <<>>)
           tags          == Get(sg_details, "Tags", <<>>)
           res == [l \in {"passed", "failed", "warnings"} |->
                      validation_results[l] \o tag_messages(tags, expected_tags, l)]
       IN  Validation("best_practices", res, NoFailure(res))

----------------------------------------------------------------------------
(* validate_security_best_practices *)

sensitive_ports ==
    << [port |-> 22,    service |-> "SSH"],
       [port |-> 3389,  service |-> "RDP"],
       [port |-> 3306,  service |-> "MySQL"],
       [port |-> 5432,  service |-> "PostgreSQL"],
       [port |-> 27017, service |-> "MongoDB"],
       [port |-> 6379,  service |-> "Redis"],
       [port |-> 1433,  service |-> "MSSQL"] >>

\* truth value of a port in "if from_port and to_port"
PortTruthy(p) == p # NoPort /\ p # 0

\* the ip ranges of the rule that are 0.0.0.0/0
OpenRanges(rule) ==
    LET IsOpen(r) == r.CidrIp = Open
    IN  SelectSeq(Get(rule, "IpRanges", <<>>), IsOpen)

port_warnings_Wildcard(rule, sp) ==
    LET from_port == Get(rule, "FromPort", NoPort)
        to_port   == Get(rule, "ToPort", NoPort)
    IN  IF \/ from_port = NoPort
           \/ to_port = NoPort
           \/ (from_port <= sp.port /\ sp.port <= to_port)
        THEN [j \in DOMAIN OpenRanges(rule) |->
                 <<"is open to internet", sp.service, sp.port>>]
        ELSE <<>>

port_warnings(rule, sp) ==
    LET from_port == Get(rule, "FromPort", NoPort)
        to_port   == Get(rule, "ToPort", NoPort)
    IN  IF PortTruthy(from_port) /\ PortTruthy(to_port)
           /\ from_port <= sp.port /\ sp.port <= to_port
        THEN [j \in DOMAIN OpenRanges(rule) |->
                 <<"is open to internet", sp.service, sp.port>>]
        ELSE <<>>

sensitive_warnings(ingress_rules) ==
    Flatten([i \in DOMAIN ingress_rules |->
        Flatten([k \in DOMAIN sensitive_ports |->
            port_warnings(ingress_rules[i], sensitive_ports[k])])])

all_protocol_warnings_AnySource(ingress_rules) ==
    Flatten([i \in DOMAIN ingress_rules |->
        IF Get(ingress_rules[i], "IpProtocol", None) = "-1"
        THEN [j \in DOMAIN Get(ingress_rules[i], "IpRanges", <<>>) |->
                 <<"All protocols allowed from internet">>]
        ELSE <<>>])

all_protocol_warnings(ingress_rules) ==
    Flatten([i \in DOMAIN ingress_rules |->
        IF Get(ingress_rules[i], "IpProtocol", None) = "-1"
        THEN [j \in DOMAIN OpenRanges(ingress_rules[i]) |->
                 <<"All protocols allowed from internet">>]
        ELSE <<>>])

best_practices_return_Passed(passed) == passed

\* "return True": what the local variable passed holds is not returned
best_practices_return(passed) == TRUE

validate_security_best_practices ==
    /\ v_pc = "best_practices"
    /\ LET ingress_rules == Get(sg_details, "IpPermissions", <<>>)
           found  == sensitive_warnings(ingress_rules)
                         \o all_protocol_warnings(ingress_rules)
           passed == found = <<>>
           res == [passed   |-> IF passed
                                THEN Append(validation_results.passed,
                                            <<"Security best practices validated">>)
                                ELSE validation_results.passed,
                   failed   |-> validation_results.failed,
                   warnings |-> validation_results.warnings \o found]
       IN  Validation("outputs", res, best_practices_return(passed))

----------------------------------------------------------------------------
(* validate_terraform_outputs *)

ArnOf(id) == "arn:aws:ec2:us-east-1:123456789012:security-group/" \o id

\* outputs.json: absent, unreadable, or the three values it holds
OutputsFiles ==
    {[kind |-> "missing"], [kind |-> "unreadable"]}
    \cup [kind : {"json"}, security_group_id : {"sg-0abc", "sg-0def", None},
          security_group_name : {"web-sg", None},
          security_group_arn : {ArnOf("sg-0abc"), None}]

outputs_id(res, outputs) ==
    IF outputs.security_group_id = security_group_id
    THEN [res EXCEPT !.passed = Append(@, <<"Output security_group_id matches">>)]
    ELSE [res EXCEPT !.failed = Append(@, <<"Output security_group_id mismatch">>)]

outputs_name(res, outputs) ==
    IF outputs.security_group_name = Get(sg_details, "GroupName", None)
    THEN [res EXCEPT !.passed = Append(@, <<"Output security_group_name matches">>)]
    ELSE [res EXCEPT !.failed = Append(@, <<"Output security_group_name mismatch">>)]

outputs_arn(res, outputs) ==
    IF outputs.security_group_arn # None
       /\ outputs.security_group_arn = ArnOf(security_group_id)
    THEN [res EXCEPT !.passed = Append(@, <<"Output security_group_arn valid">>)]
    ELSE res

validate_terraform_outputs(outputs) ==
    /\ v_pc = "outputs"
    /\ CASE outputs.kind = "missing" ->
            Validation("summary",
                [validation_results EXCEPT
                    !.warnings = Append(@, <<"Outputs file not found">>)],
                TRUE)
      [] outputs.kind = "unreadable" ->
            LET res == [validation_results EXCEPT
                           !.warnings = Append(@, <<"Error reading outputs">>)]
            IN  Validation("summary", res, NoFailure(res))
      [] outputs.kind = "json" ->
            LET res == outputs_arn(outputs_name(
                           outputs_id(validation_results, outputs), outputs),
                           outputs)
            IN  Validation("summary", res, NoFailure(res))

----------------------------------------------------------------------------
(* print_summary and the return of run_all_validations *)

summary_line ==
    IF Len(validation_results.failed) = 0
       /\ Len(validation_results.warnings) = 0
    THEN "All validations passed successfully"
    ELSE IF Len(validation_results.failed) = 0
    THEN "All validations passed with warnings"
    ELSE "Validation failed"

all_Last(rs) == rs[Len(rs)]

all(rs) == \A i \in DOMAIN rs : rs[i]

run_all_validations_return ==
    /\ v_pc = "summary"
    /\ v_banner' = summary_line
    /\ v_success' = IF all(v_results) THEN "True" ELSE "False"
    /\ v_pc' = "returned"
    /\ UNCHANGED <<expected_config, aws, sg_details, validation_results,
                   v_results, ovars, tvars, cvars, fvars>>

----------------------------------------------------------------------------
(* Test_security_group_integration.py: the tests of the ingress policy *)

\* the orchestrator standing still while another program is checked
OrchestratorIdle ==
    /\ config = [run_pre_deployment |-> TRUE, run_terraform_tests |-> TRUE,
                 run_integration_tests |-> TRUE, run_post_deployment |-> TRUE,
                 cleanup_after_tests |-> TRUE]
    /\ results = [p \in PhaseSet |-> [status |-> "pending", details |-> ""]]
    /\ security_group_id = "sg-0abc"
    /\ all_passed = TRUE
    /\ pc = "idle"
    /\ returned = [p \in PhaseSet |-> "none"]
    /\ entered = <<>>
    /\ commands = <<>>
    /\ skip_note = [p \in PhaseSet |-> "none"]
    /\ last_call = NoCallYet
    /\ tool_failed = {}
    /\ cleanup_calls = 0
    /\ cleanup_result = "none"
    /\ summary_prints = 0
    /\ banner = "none"
    /\ exit_code = -1

o_ssh_private == [IpProtocol |-> "tcp", FromPort |-> 22, ToPort |-> 22,
                  IpRanges |-> Ranges(<<Private>>)]
o_range_1000  == [IpProtocol |-> "tcp", FromPort |-> 1000, ToPort |-> 2000,
                  IpRanges |-> Ranges(<<Private>>)]
o_range_1001  == [IpProtocol |-> "tcp", FromPort |-> 1000, ToPort |-> 2001,
                  IpRanges |-> Ranges(<<Private>>)]

TestedIngress == {o_https, o_ssh, o_ssh_private, o_low, o_all,
                  o_range_1000, o_range_1001}

TInit ==
    /\ TerraformIdle
    /\ OrchestratorIdle
    /\ ConfigIdle
    /\ expected_config = MinimalConfig
    /\ \E o \in SeqsUpTo(TestedIngress, MaxObserved) :
          aws = [DeployedGroup EXCEPT !.IpPermissions = o]
    /\ sg_details = None
    /\ validation_results = NoResults
    /\ v_results = <<>>
    /\ v_pc = "idle"
    /\ v_banner = "none"
    /\ v_success = "none"
    /\ t_pc = "fixture"
    /\ t_outcome = [t \in TestSet |-> "none"]
    /\ t_printed = [t \in TestSet |-> <<>>]

\* the test pytest runs after this one
NextTest(t) ==
    LET i == CHOOSE k \in DOMAIN Tests : Tests[k] = t
    IN  IF i = Len(Tests) THEN "done" ELSE Tests[i + 1]

\* one test: what it printed and how it ended
RunTest(t, printed, outcome) ==
    /\ t_pc = t
    /\ t_printed' = [t_printed EXCEPT ![t] = printed]
    /\ t_outcome' = [t_outcome EXCEPT ![t] = outcome]
    /\ t_pc' = NextTest(t)
    /\ UNCHANGED <<ovars, vvars, cvars, fvars>>

\* the class-scoped fixture: a ClientError fails every test that needs it
security_group_details(found) ==
    /\ t_pc = "fixture"
    /\ IF found
          THEN /\ t_pc' = Tests[1]
               /\ UNCHANGED t_outcome
          ELSE /\ t_pc' = "done"
               /\ t_outcome' = [t \in TestSet |-> "error"]
    /\ UNCHANGED <<t_printed, ovars, vvars, cvars, fvars>>

ssh_rules(ingress_rules) ==
    LET IsSsh(rule) == /\ Get(rule, "FromPort", NoPort) = 22
                       /\ Get(rule, "ToPort", NoPort) = 22
    IN  SelectSeq(ingress_rules, IsSsh)

ssh_outcome_Any(ingress_rules) ==
    IF \E i \in DOMAIN ssh_rules(ingress_rules) :
          Open \in SeqToSet(rule_cidrs(ssh_rules(ingress_rules)[i]))
    THEN "failed" ELSE "passed"

\* only ssh_rules[0] is looked at
ssh_outcome(ingress_rules) ==
    IF /\ ssh_rules(ingress_rules) # <<>>
       /\ Get(ssh_rules(ingress_rules)[1], "IpRanges", <<>>) # <<>>
       /\ Open \in SeqToSet(rule_cidrs(ssh_rules(ingress_rules)[1]))
    THEN "failed" ELSE "passed"

test_ssh_ingress_rule_restricted ==
    /\ t_pc = "test_ssh_ingress_rule_restricted"
    /\ RunTest("test_ssh_ingress_rule_restricted", <<>>,
               ssh_outcome(Get(aws, "IpPermissions", <<>>)))

sensitive_port_list == <<22, 3389, 3306, 5432, 1433, 27017, 6379>>

port_violations(rule) ==
    IF Get(rule, "FromPort", NoPort) = NoPort THEN <<>>
    ELSE Flatten([k \in DOMAIN sensitive_port_list |->
            IF /\ rule.FromPort <= sensitive_port_list[k]
               /\ sensitive_port_list[k] <= rule.ToPort
            THEN [j \in DOMAIN OpenRanges(rule) |->
                     <<"Port is open to internet", sensitive_port_list[k]>>]
            ELSE <<>>])

test_no_unrestricted_ingress_on_sensitive_ports ==
    /\ t_pc = "test_no_unrestricted_ingress_on_sensitive_ports"
    /\ LET ingress_rules == Get(aws, "IpPermissions", <<>>)
           violations == Flatten([i \in DOMAIN ingress_rules |->
                                     port_violations(ingress_rules[i])])
       IN  RunTest("test_no_unrestricted_ingress_on_sensitive_ports",
                   violations, "passed")

LargeRange_Inclusive(from_port, to_port) == to_port - from_port >= 1000

\* to_port - from_port > 1000
LargeRange(from_port, to_port) == to_port - from_port > 1000

permissive_warnings(rule) ==
    LET from_port == Get(rule, "FromPort", 0)
        to_port   == Get(rule, "ToPort", 0)
    IN  (IF Get(rule, "IpProtocol", None) = "-1"
         THEN [j \in DOMAIN OpenRanges(rule) |->
                  <<"Ingress rule allows all protocols from internet">>]
         ELSE <<>>)
        \o (IF LargeRange(from_port, to_port)
            THEN << <<"Large port range", from_port, to_port>> >>
            ELSE <<>>)

test_no_overly_permissive_ingress ==
    /\ t_pc = "test_no_overly_permissive_ingress"
    /\ LET ingress_rules == Get(aws, "IpPermissions", <<>>)
           warnings == Flatten([i \in DOMAIN ingress_rules |->
                                   permissive_warnings(ingress_rules[i])])
       IN  RunTest("test_no_overly_permissive_ingress", warnings, "passed")

----------------------------------------------------------------------------
(* Validate_terraform.py: SecurityGroupConfigValidator *)

MaxRules == 2

\* rules as terraform.tfvars writes them
r_https      == [from_port |-> 443, to_port |-> 443, protocol |-> "tcp",
                 cidr_blocks |-> <<Private>>, description |-> "https"]
r_reversed   == [from_port |-> 8080, to_port |-> 80, protocol |-> "tcp",
                 cidr_blocks |-> <<Private>>, description |-> "web"]
r_unusual    == [from_port |-> 0, to_port |-> 0, protocol |-> "gre",
                 cidr_blocks |-> <<Private>>, description |-> "tunnel"]
r_no_cidr    == [from_port |-> 443, to_port |-> 443, protocol |-> "tcp",
                 description |-> "https"]
r_ssh_open   == [from_port |-> 22, to_port |-> 22, protocol |-> "tcp",
                 cidr_blocks |-> <<Open>>]
r_low_open   == [from_port |-> 0, to_port |-> 1024, protocol |-> "tcp",
                 cidr_blocks |-> <<Open>>, description |-> "low ports"]
r_mssql_open == [from_port |-> 1433, to_port |-> 1433, protocol |-> "tcp",
                 cidr_blocks |-> <<Open>>, description |-> "mssql"]
r_all_open   == [from_port |-> 0, to_port |-> 0, protocol |-> "-1",
                 cidr_blocks |-> <<Open>>, description |-> "all"]

ConfigIngress == {r_https, r_reversed, r_unusual, r_no_cidr, r_ssh_open,
                  r_low_open, r_mssql_open, r_all_open}
ConfigEgress  == {r_https, r_no_cidr}

Methods == {"validate_ingress_rules", "validate_egress_rules"}

CInit ==
    /\ TerraformIdle
    /\ OrchestratorIdle
    /\ ValidatorIdle
    /\ TestsIdle
    /\ c_ingress \in SeqsUpTo(ConfigIngress, MaxRules)
    /\ c_egress \in SeqsUpTo(ConfigEgress, 1)
    /\ c_errors = <<>>
    /\ c_warnings = <<>>
    /\ c_returned = [m \in Methods |-> "none"]
    /\ c_printed = FALSE

required_fields == <<"from_port", "to_port", "protocol", "cidr_blocks">>

\* [f for f in required_fields if f not in rule]
missing_fields(rule) ==
    LET Absent(f) == f \notin DOMAIN rule
    IN  SelectSeq(required_fields, Absent)

valid_protocols == {"tcp", "udp", "icmp", "-1"}

config_sensitive_ports == <<22, 3389, 3306, 5432, 27017>>

rule_errors_NoPortCheck(rule, rule_num) ==
    IF missing_fields(rule) # <<>>
    THEN << <<"Missing fields", rule_num, missing_fields(rule)>> >>
    ELSE <<>>

\* what one pass of the loop appends to self.errors
rule_errors(rule, rule_num) ==
    IF missing_fields(rule) # <<>>
    THEN << <<"Missing fields", rule_num, missing_fields(rule)>> >>
    ELSE IF rule.from_port > rule.to_port
    THEN << <<"from_port > to_port", rule_num>> >>
    ELSE <<>>

open_port_warnings(rule, rule_num) ==
    IF Open \in SeqToSet(Get(rule, "cidr_blocks", <<>>))
    THEN LET Covered(port) == rule.from_port <= port /\ port <= rule.to_port
             ports == SelectSeq(config_sensitive_ports, Covered)
         IN  [k \in DOMAIN ports |->
                 <<"Port open to internet", rule_num, ports[k]>>]
    ELSE <<>>

\* what one pass of the loop appends to self.warnings
rule_warnings(rule, rule_num) ==
    IF missing_fields(rule) # <<>> THEN <<>>
    ELSE (IF rule.protocol \notin valid_protocols
          THEN << <<"Unusual protocol", rule_num>> >> ELSE <<>>)
         \o open_port_warnings(rule, rule_num)
         \o (IF Get(rule, "description", "") = ""
             THEN << <<"No description provided", rule_num>> >> ELSE <<>>)

\* return of a method of the config validator
ConfigReturn(m, errors, warnings, ret) ==
    /\ c_returned[m] = "none"
    /\ c_errors' = errors
    /\ c_warnings' = warnings
    /\ c_returned' = [c_returned EXCEPT ![m] = IF ret THEN "True" ELSE "False"]
    /\ UNCHANGED <<c_ingress, c_egress, c_printed, ovars, vvars, tvars, fvars>>

config_validate_ingress_rules ==
    /\ c_returned["validate_ingress_rules"] = "none"
    /\ IF c_ingress = <<>>
       THEN ConfigReturn("validate_ingress_rules", c_errors, c_warnings, TRUE)
       ELSE LET errors == c_errors \o Flatten([i \in DOMAIN c_ingress |->
                              rule_errors(c_ingress[i], i)])
                warnings == c_warnings \o Flatten([i \in DOMAIN c_ingress |->
                              rule_warnings(c_ingress[i], i)])
            IN  ConfigReturn("validate_ingress_rules", errors, warnings,
                             Len(errors) = 0)

egress_rule_errors(rule, rule_num) ==
    IF missing_fields(rule) # <<>>
    THEN << <<"Egress Missing fields", rule_num, missing_fields(rule)>> >>
    ELSE <<>>

config_validate_egress_rules ==
    /\ c_returned["validate_egress_rules"] = "none"
    /\ IF c_egress = <<>>
       THEN ConfigReturn("validate_egress_rules", c_errors,
                         Append(c_warnings, <<"No egress rules defined">>), TRUE)
       ELSE LET errors == c_errors \o Flatten([i \in DOMAIN c_egress |->
                              egress_rule_errors(c_egress[i], i)])
            IN  ConfigReturn("validate_egress_rules", errors, c_warnings,
                             Len(errors) = 0)

config_print_summary ==
    /\ ~c_printed
    /\ c_printed' = TRUE
    /\ UNCHANGED <<c_ingress, c_egress, c_errors, c_warnings, c_returned,
                   ovars, vvars, tvars, fvars>>

----------------------------------------------------------------------------
(* Specifications *)

Next ==
    \/ \E o \in Outcomes : Phase1(o)
    \/ \E l \in Listings, o \in Outcomes : Phase2(l, o)
    \/ \E o \in Outcomes : Phase3Init(o)
    \/ \E o \in Outcomes : Phase3Plan(o)
    \/ \E o \in Outcomes : Phase3Apply(o)
    \/ \E o \in Outcomes, k \in OutputKinds, w \in BOOLEAN : Phase3Output(o, k, w)
    \/ \E o \in Outcomes, c \in PytestCodes, r \in Reports, f \in 0..MaxFailed :
          Phase3Tests(o, c, r, f)
    \/ \E o \in Outcomes : Phase4(o)
    \/ \E o \in Outcomes : Cleanup(o)
    \/ NoCleanup
    \/ print_final_summary
    \/ main

Spec == Init /\ [][Next]_vars

\* the interpreter runs the next statement, and every external process the
\* runner waits for ends or is timed out
FairSpec == Spec /\ WF_vars(Next)

Done == pc = "exited"

\* the validator alone, on every input of ValidatorInputs
VNext ==
    \/ \E found \in BOOLEAN : fetch_security_group(found)
    \/ validate_basic_properties
    \/ validate_ingress_rules
    \/ validate_egress_rules
    \/ validate_tags
    \/ validate_security_best_practices
    \/ \E outputs \in OutputsFiles : validate_terraform_outputs(outputs)
    \/ run_all_validations_return

VSpec == VInit /\ [][VNext]_vars

\* the integration tests of the ingress policy, in pytest's order
TNext ==
    \/ \E found \in BOOLEAN : security_group_details(found)
    \/ test_ssh_ingress_rule_restricted
    \/ test_no_unrestricted_ingress_on_sensitive_ports
    \/ test_no_overly_permissive_ingress

TSpec == TInit /\ [][TNext]_vars

\* the config validator: its methods, each called once, in any order
CNext ==
    \/ config_validate_ingress_rules
    \/ config_validate_egress_rules
    \/ config_print_summary

CSpec == CInit /\ [][CNext]_vars

----------------------------------------------------------------------------
(* TerraformValidator and the main of the pre-deployment validation script *)

\* the rule sets of the configuration the script is pointed at
PlannedIngress == {<<r_https>>, <<r_no_cidr>>}

\* main up to the call of run_all_tests: the validator is constructed and
\* --skip-tools only appends a warning
PInit ==
    /\ OrchestratorIdle
    /\ ValidatorIdle
    /\ TestsIdle
    /\ c_ingress \in PlannedIngress
    /\ c_egress = <<>>
    /\ c_errors = <<>>
    /\ c_warnings = <<>>
    /\ c_returned = [m \in Methods |-> "none"]
    /\ c_printed = FALSE
    /\ f_skip_tools \in BOOLEAN
    /\ f_pc = "test_terraform_format"
    /\ f_errors = <<>>
    /\ f_warnings = IF f_skip_tools THEN <<"External tool checks skipped">>
                    ELSE <<>>
    /\ f_results = <<>>
    /\ f_commands = <<>>
    /\ f_events = {}
    /\ f_returned = "none"
    /\ f_exit = -1

\* the tests list of run_all_tests
tests == <<"test_terraform_format", "test_terraform_init",
           "test_terraform_validate", "test_terraform_plan",
           "test_security_scan_checkov", "test_tflint",
           "test_variable_validation", "test_output_validation">>

\* AfterTest leaving the loop at the first test that did not return True
AfterTest_StopOnFailure(t, result) ==
    LET i == CHOOSE k \in DOMAIN tests : tests[k] = t
    IN  IF i = Len(tests) \/ ~result THEN "summary" ELSE tests[i + 1]

\* the for loop: the test called after t, whatever t produced
AfterTest(t, result) ==
    LET i == CHOOSE k \in DOMAIN tests : tests[k] = t
    IN  IF i = Len(tests) THEN "summary" ELSE tests[i + 1]

\* TerraformValidator.run_command: the return code; a timeout and a launch
\* error are caught and reported as 1
returncode(o) ==
    CASE o = "ok"      -> 0
      [] o = "nonzero" -> 2
      [] o = "timeout" -> 1
      [] o = "oserror" -> 1

\* one pass of the loop body for a test that returned result
Returns(t, result, errors, warnings, cmds, events) ==
    /\ f_results' = Append(f_results, [test |-> t, result |-> result])
    /\ f_errors' = f_errors \o errors
    /\ f_warnings' = f_warnings \o warnings
    /\ f_commands' = f_commands \o cmds
    /\ f_events' = f_events \cup events
    /\ f_pc' = AfterTest(t, result)
    /\ UNCHANGED <<f_skip_tools, f_returned, f_exit, ovars, vvars, tvars, cvars>>

\* one pass of the loop body for a test that raised: the except clause
Raises(t, errors, cmds, events) ==
    Returns(t, FALSE, errors \o <<"Test failed with exception">>, <<>>,
            cmds, events)

\* a required step: its command must return 0
RequiredStep(t, cmd, message, o) ==
    IF returncode(o) # 0
    THEN Returns(t, FALSE, <<message>>, <<>>, <<cmd>>, {<<cmd, "nonzero">>})
    ELSE Returns(t, TRUE, <<>>, <<>>, <<cmd>>, {})

test_terraform_format(o) ==
    /\ f_pc = "test_terraform_format"
    /\ RequiredStep("test_terraform_format", "terraform fmt",
                    "Terraform files are not properly formatted", o)

test_terraform_init(o) ==
    /\ f_pc = "test_terraform_init"
    /\ RequiredStep("test_terraform_init", "terraform init",
                    "Terraform init failed", o)

\* what the stdout of terraform validate -json parses to: not JSON, JSON that
\* is not an object, an object with valid true, with valid false or absent,
\* the latter with a diagnostic that is not an object
ValidateKinds == {"not_json", "not_object", "valid", "invalid",
                  "invalid_bad_diagnostic"}

test_terraform_validate(o, kind) ==
    LET t == "test_terraform_validate" cmd == "terraform validate" IN
    /\ f_pc = t
    /\ IF returncode(o) # 0
       THEN Returns(t, FALSE, <<"Terraform validation failed">>, <<>>, <<cmd>>,
                    {<<cmd, "nonzero">>})
       ELSE CASE kind \in {"not_json", "valid"} ->
                    Returns(t, TRUE, <<>>, <<>>, <<cmd>>, {})
              [] kind = "not_object" ->
                    Raises(t, <<>>, <<cmd>>, {<<cmd, "raised">>})
              [] kind = "invalid" ->
                    Returns(t, FALSE, <<"Configuration is not valid">>, <<>>,
                            <<cmd>>, {<<cmd, "invalid">>})
              [] kind = "invalid_bad_diagnostic" ->
                    Raises(t, <<"Configuration is not valid">>, <<cmd>>,
                           {<<cmd, "invalid">>, <<cmd, "raised">>})

test_terraform_plan(o) ==
    /\ f_pc = "test_terraform_plan"
    /\ RequiredStep("test_terraform_plan", "terraform plan",
                    "Terraform plan failed", o)

\* what test_security_scan_checkov returns once the scan has run
checkov_result(rc, findings) == TRUE

test_security_scan_checkov(which, o, findings) ==
    LET t == "test_security_scan_checkov" IN
    /\ f_pc = t
    /\ IF returncode(which) # 0
       THEN Returns(t, TRUE, <<>>,
                    <<"Checkov not installed, skipping security scan">>,
                    <<"which checkov">>, {<<"checkov", "absent">>})
       ELSE Returns(t, checkov_result(returncode(o), findings), <<>>, <<>>,
                    <<"which checkov", "checkov">>,
                    (IF returncode(o) # 0 THEN {<<"checkov", "nonzero">>} ELSE {})
                    \cup (IF findings THEN {<<"checkov", "findings">>} ELSE {}))

\* test_tflint failing when the linter exits nonzero
tflint_result_Strict(rc) == rc = 0

\* what test_tflint returns once the linter has run
tflint_result(rc) == TRUE

test_tflint(which, o) ==
    LET t == "test_tflint" IN
    /\ f_pc = t
    /\ IF returncode(which) # 0
       THEN Returns(t, TRUE, <<>>, <<"TFLint not installed, skipping">>,
                    <<"which tflint">>, {<<"tflint", "absent">>})
       ELSE Returns(t, tflint_result(returncode(o)), <<>>, <<>>,
                    <<"which tflint", "tflint --init", "tflint">>,
                    IF returncode(o) # 0 THEN {<<"tflint", "nonzero">>} ELSE {})

test_variable_validation(exists) ==
    LET t == "test_variable_validation" IN
    /\ f_pc = t
    /\ Returns(t, TRUE, <<>>,
               IF exists THEN <<>> ELSE <<"variables.tf not found">>, <<>>, {})

\* outputs.tf: absent, unreadable, without / with one of the standard outputs
OutputsTf == {"absent", "unreadable", "no_standard", "standard"}

test_output_validation(file) ==
    LET t == "test_output_validation" IN
    /\ f_pc = t
    /\ Returns(t, TRUE, <<>>,
               CASE file = "absent"      -> <<"outputs.tf not found">>
                 [] file = "unreadable"  -> <<"Could not read outputs.tf">>
                 [] file = "no_standard" -> <<"No standard outputs found">>
                 [] file = "standard"    -> <<>>,
               <<>>, {})

\* the results list of run_all_tests
test_results == [i \in DOMAIN f_results |-> f_results[i].result]

\* _print_summary and the return of run_all_tests
run_all_tests_return ==
    /\ f_pc = "summary"
    /\ f_returned' = IF all(test_results) /\ Len(f_errors) = 0
                     THEN "True" ELSE "False"
    /\ f_pc' = "returned"
    /\ UNCHANGED <<f_skip_tools, f_errors, f_warnings, f_results, f_commands,
                   f_events, f_exit, ovars, vvars, tvars, cvars>>

\* main: sys.exit(0 if success else 1)
validate_terraform_main ==
    /\ f_pc = "returned"
    /\ f_exit' = IF f_returned = "True" THEN 0 ELSE 1
    /\ f_pc' = "exited"
    /\ UNCHANGED <<f_skip_tools, f_errors, f_warnings, f_results, f_commands,
                   f_events, f_returned, ovars, vvars, tvars, cvars>>

PNext ==
    \/ \E o \in Outcomes : test_terraform_format(o)
    \/ \E o \in Outcomes : test_terraform_init(o)
    \/ \E o \in Outcomes, kind \in ValidateKinds : test_terraform_validate(o, kind)
    \/ \E o \in Outcomes : test_terraform_plan(o)
    \/ \E which \in Outcomes, o \in Outcomes, findings \in BOOLEAN :
          test_security_scan_checkov(which, o, findings)
    \/ \E which \in Outcomes, o \in Outcomes : test_tflint(which, o)
    \/ \E exists \in BOOLEAN : test_variable_validation(exists)
    \/ \E file \in OutputsTf : test_output_validation(file)
    \/ run_all_tests_return
    \/ validate_terraform_main

PSpec == PInit /\ [][PNext]_vars

----------------------------------------------------------------------------
(* Observations used by the properties *)

CommandsOf(p) == {i \in DOMAIN commands : commands[i].phase = p}

DestroyCount ==
    Cardinality({i \in DOMAIN commands : commands[i].cmd = "terraform destroy"})

Status(p) == results[p].status

SomeRaised == \E p \in PhaseSet : returned[p] = "raised"

AfterTeardown == pc \in {"summary", "return", "exited"}

----------------------------------------------------------------------------
(* Properties *)

\* C1: cleanup guarantee. Whatever the phases did (passed, failed, skipped,
\* raised) and whatever fail_fast is, once the phase sequence has ended
\* cleanup() has been called and terraform destroy issued exactly once if
\* config cleanup is true; with cleanup false they never are. Never twice.
C1_CleanupExactlyOnce ==
    /\ cleanup_calls <= 1 /\ DestroyCount <= 1
    /\ ~config.cleanup => cleanup_calls = 0 /\ DestroyCount = 0
    /\ (AfterTeardown /\ config.cleanup) => cleanup_calls = 1 /\ DestroyCount = 1

C1_Witness ==
    /\ Done /\ config.cleanup /\ SomeRaised
    /\ \E p \in PhaseSet : Status(p) = "failed"
    /\ cleanup_calls = 1 /\ DestroyCount = 1

\* C2: fail-fast. With fail_fast set, when a phase ended failed every later
\* phase is never entered, issues no command and still has status pending at
\* the end of the run; teardown still runs (cleanup enabled) and the exit
\* code is 1.
C2_FailFast ==
    (Done /\ config.fail_fast) =>
        \A i \in 1..Len(Phases) :
            Status(Phases[i]) = "failed" =>
                /\ \A j \in (i + 1)..Len(Phases) :
                      /\ Status(Phases[j]) = "pending"
                      /\ returned[Phases[j]] = "none"
                      /\ CommandsOf(Phases[j]) = {}
                      /\ \A k \in DOMAIN entered : entered[k] # Phases[j]
                /\ config.cleanup => DestroyCount = 1
                /\ ~all_passed
                /\ exit_code = 1

C2_Witness ==
    /\ Done /\ config.fail_fast /\ config.cleanup
    /\ Status("pre_deployment") = "failed"
    /\ Status("post_deployment") = "pending"
    /\ DestroyCount = 1 /\ exit_code = 1

\* C3: exception containment, recording. A phase whose function raised ends
\* the run with status failed and a detail (the error text).
C3_ExceptionRecorded ==
    Done => \A p \in PhaseSet :
                returned[p] = "raised" =>
                    Status(p) = "failed" /\ Len(results[p].details) > 0

C5_FailedIffFailedPhase ==
    Done => /\ (exit_code = 1) <=> (failed_phases # {})
            /\ (exit_code = 1) <=> (banner = "TESTS FAILED")

\* C6: process exit code. The process exits with 0 iff every phase that was
\* not skipped ended passed; otherwise it exits with 1.
C6_ExitCode ==
    Done => /\ exit_code \in {0, 1}
            /\ (exit_code = 0) <=>
                   (\A p \in PhaseSet : Status(p) # "skipped" => Status(p) = "passed")

C6_Witness ==
    /\ Done /\ exit_code = 0
    /\ \E p \in PhaseSet : Status(p) = "skipped"
    /\ \E p \in PhaseSet : Status(p) = "passed"

\* C7: declaration order. The phase functions called so far are a prefix of
\* the declared list (so none is called twice or out of order), a phase is
\* called only when every earlier one has returned or raised, and the
\* commands of a phase never precede those of an earlier phase.
C7_DeclarationOrder ==
    /\ Len(entered) <= Len(Phases)
    /\ \A k \in DOMAIN entered :
          /\ entered[k] = Phases[k]
          /\ \A j \in 1..(k - 1) : returned[Phases[j]] # "none"
    /\ \A a, b \in DOMAIN commands :
          (a < b /\ commands[a].phase \in PhaseSet /\ commands[b].phase \in PhaseSet)
              => PhaseIndex(commands[a].phase) <= PhaseIndex(commands[b].phase)

C7_Witness ==
    /\ Done /\ entered = Phases
    /\ \A p \in PhaseSet : CommandsOf(p) # {}

\* C8: without fail_fast every phase is entered exactly once and at the end
\* of the run every phase has a terminal status.
C8_AllTerminal ==
    (Done /\ ~config.fail_fast) =>
        /\ entered = Phases
        /\ \A p \in PhaseSet : Status(p) \in Terminal

\* C9: a teardown failure alters nothing. The teardown step, whatever the
\* destroy command returns, leaves the results, the record of what the
\* phases returned and the verdict as they were, and the exit code is the
\* verdict reached by the phase loop.
C9_TeardownFrame ==
    [][/\ pc = "cleanup" =>
             (results' = results /\ all_passed' = all_passed /\ returned' = returned)
       /\ pc' = "exited" =>
             (exit_code' = 0 <=> \A p \in PhaseSet : returned[p] \in {"True"})]_vars

C9_Witness ==
    /\ Done /\ cleanup_result = "False" /\ exit_code = 0
    /\ \A p \in PhaseSet : Status(p) = "passed"

\* C10: a phase disabled by configuration, once entered, has status skipped,
\* has issued no external command and returned True.
C10_DisabledSkipped ==
    LET Disabled(p) ==
            \/ p = "pre_deployment" /\ ~config.run_pre_deployment
            \/ p = "terraform_test" /\ ~config.run_terraform_tests
            \/ p = "integration_test" /\ ~config.run_integration_tests
            \/ p = "post_deployment" /\ ~config.run_post_deployment
    IN \A p \in PhaseSet :
          (Disabled(p) /\ \E k \in DOMAIN entered : entered[k] = p) =>
              /\ Status(p) = "skipped"
              /\ CommandsOf(p) = {}
              /\ returned[p] = "True"

C10_Witness ==
    /\ Done /\ ~config.run_post_deployment /\ Truthy(security_group_id)
    /\ Status("post_deployment") = "skipped"
    /\ Status("integration_test") = "passed"

\* C11 (as stated): a phase enabled by configuration that was entered and
\* has returned has status passed or failed, and a skipped phase is one
\* disabled by configuration.
C11_EnabledEndsPassedOrFailed ==
    \A p \in PhaseSet :
        /\ (PhaseEnabled(p) /\ returned[p] \in {"True", "False"})
               => Status(p) \in {"passed", "failed"}
        /\ Status(p) = "skipped" => ~PhaseEnabled(p)

\* C11 (amended): a phase that was entered is skipped exactly when it is
\* disabled by configuration, or it is terraform_test and found no
\* .tftest.hcl file, or it is post_deployment and no security group id is
\* available; a phase that returned False is failed, one that returned True
\* is passed or skipped, and one that raised is left pending.
C11_SkipReasons ==
    \A p \in PhaseSet :
        returned[p] # "none" =>
            /\ Status(p) = "skipped" <=>
                  \/ ~PhaseEnabled(p)
                  \/ p = "terraform_test"
                        /\ skip_note[p] = "No .tftest.hcl files found"
                  \/ p = "post_deployment" /\ security_group_id \in {None, ""}
            /\ returned[p] = "False" <=> Status(p) = "failed"
            /\ returned[p] = "True" => Status(p) \in {"passed", "skipped"}
            /\ returned[p] = "raised" => Status(p) = "pending"

C11_Witness ==
    /\ Done
    /\ \A p \in PhaseSet : PhaseEnabled(p)
    /\ Status("terraform_test") = "skipped"
    /\ Status("integration_test") = "passed"
    /\ Status("post_deployment") = "skipped"
    /\ security_group_id = ""

\* C12: status lifecycle. Every phase starts pending, and a step changes the
\* status of a phase only from pending to passed, failed or skipped.
C12_StatusLifecycle ==
    /\ \A p \in PhaseSet : results[p].status = "pending"
    /\ [][\A p \in PhaseSet :
              results'[p].status # results[p].status =>
                  /\ results[p].status = "pending"
                  /\ results'[p].status \in Terminal]_vars

C12_Witness ==
    /\ Done
    /\ Status("pre_deployment") = "skipped"
    /\ Status("terraform_test") = "passed"
    /\ Status("integration_test") = "failed"
    /\ Len(results["integration_test"].details) = 1
    /\ Status("post_deployment") = "pending"

\* C13: collaborator errors fail the phase. A phase one of whose external
\* tool invocations failed (nonzero exit) or timed out, the output command
\* and the integration-test process of phase 3 included, has status failed
\* once it has ended.
C13_ToolFailureFailsPhase ==
    \A p \in PhaseSet :
        (p \in tool_failed /\ returned[p] # "none") => Status(p) = "failed"

\* C14: once provisioning has succeeded and the integration-test process
\* has ended, integration_test is failed iff the verdict of the live
\* comparison is failed (pytest exit code 1), and it is passed only if the
\* comparison was evaluated and passed (pytest exit code 0).
C14_FailedIffComparisonFailed ==
    (last_call.cmd = "pytest" /\ ~last_call.raised) =>
        /\ Status(P3) = "failed" <=> last_call.returncode = 1
        /\ Status(P3) = "passed" => last_call.returncode = 0

\* C15: every external process call is guarded. A call never raises into
\* the phase, and a call that timed out or could not be launched hands back
\* a nonzero return code, with the reason "Command timed out" for a timeout.
C15_CallsGuarded ==
    /\ ~last_call.raised
    /\ last_call.outcome = "timeout" =>
           last_call.returncode # 0 /\ last_call.stderr = "Command timed out"
    /\ last_call.outcome = "oserror" => last_call.returncode # 0

----------------------------------------------------------------------------
(* Observations of the validator used by the properties *)

ExpectedIn  == Get(expected_config, "ingress_rules", <<>>)
ExpectedOut == Get(expected_config, "egress_rules", <<>>)
ObservedIn  == Get(aws, "IpPermissions", <<>>)
ObservedOut == Get(aws, "IpPermissionsEgress", <<>>)

\* the validations of run_all_validations' list that have ended
Ran(n) == Len(v_results) >= n

\* the list holds a message of this kind about the i-th expected rule
Reported(list, kind, i) ==
    \E k \in DOMAIN list :
        /\ Len(list[k]) >= 2
        /\ list[k][1] = kind
        /\ list[k][2] = i

\* the list holds a Missing message for the i-th expected rule, with the rule
ReportedMissing(list, kind, i, rule) ==
    \E k \in DOMAIN list :
        /\ Len(list[k]) = 3
        /\ list[k][1] = kind
        /\ list[k][2] = i
        /\ list[k][3] = rule

Count(list, kind) == Cardinality({k \in DOMAIN list : list[k][1] = kind})

SameProtocolAndPorts(e, o) ==
    /\ Get(o, "IpProtocol", None) = Get(e, "protocol", None)
    /\ Get(o, "FromPort", NoPort) = Get(e, "from_port", NoPort)
    /\ Get(o, "ToPort", NoPort) = Get(e, "to_port", NoPort)

Sources(o) == {o.IpRanges[i].CidrIp : i \in DOMAIN o.IpRanges}

\* equivalence with the CIDR sets always compared
Equivalent(e, o) ==
    /\ SameProtocolAndPorts(e, o)
    /\ Sources(o) = SeqToSet(Get(e, "cidr_blocks", <<>>))

\* equivalence with the CIDR sets compared when the expected rule has them
EquivalentIfSpecified(e, o) ==
    /\ SameProtocolAndPorts(e, o)
    /\ "cidr_blocks" \in DOMAIN e => Sources(o) = SeqToSet(e.cidr_blocks)

Eq(exact, e, o) ==
    IF exact THEN Equivalent(e, o) ELSE EquivalentIfSpecified(e, o)

\* every expected rule is reported found iff it is equivalent to some
\* observed rule, and reported missing, with the rule, otherwise
MatchingFollows(exact) ==
    /\ Ran(2) =>
          \A i \in DOMAIN ExpectedIn :
             LET eq == \E j \in DOMAIN ObservedIn :
                            Eq(exact, ExpectedIn[i], ObservedIn[j])
             IN  /\ Reported(validation_results.passed, "Ingress rule found", i) <=> eq
                 /\ ReportedMissing(validation_results.failed,
                        "Ingress rule not found", i, ExpectedIn[i]) <=> ~eq
    /\ Ran(3) =>
          \A i \in DOMAIN ExpectedOut :
             LET eq == \E j \in DOMAIN ObservedOut :
                            Eq(exact, ExpectedOut[i], ObservedOut[j])
             IN  /\ Reported(validation_results.passed, "Egress rule found", i) <=> eq
                 /\ ReportedMissing(validation_results.failed,
                        "Egress rule not found", i, ExpectedOut[i]) <=> ~eq

----------------------------------------------------------------------------
(* Properties of the validator *)

\* C16 as stated: rule matching is exact equivalence. For ingress and egress,
\* every expected rule is reported found iff some observed rule has the same
\* protocol, from-port and to-port and a CIDR set equal to the expected one,
\* and is otherwise reported missing, carrying the expected rule.
C16_ExactEquivalence == MatchingFollows(TRUE)

\* C16 amended: the CIDR sets are compared, as sets, only when the expected
\* rule specifies cidr_blocks; an expected rule without cidr_blocks is found
\* as soon as protocol and ports agree. Otherwise matching is exact: no
\* subset or superset matching, order and repetition immaterial.
C16_EquivalenceOnSpecifiedCidrs == MatchingFollows(FALSE)

\* rule 1 repeats its CIDR and is found; rule 2 lists one CIDR more than
\* the deployed rule and is missing
C16_Witness ==
    /\ v_pc = "returned"
    /\ ExpectedIn = <<e_https_rep, e_https_two>>
    /\ ObservedIn = <<o_https>>
    /\ Reported(validation_results.passed, "Ingress rule found", 1)
    /\ ReportedMissing(validation_results.failed, "Ingress rule not found",
                       2, e_https_two)

\* the count of the "additional ingress rule(s) found" warning, 0 when absent
AdditionalReported ==
    LET w  == validation_results.warnings
        at == {k \in DOMAIN w : w[k][1] = "additional ingress rule(s) found"}
    IN  IF at = {} THEN 0 ELSE w[CHOOSE k \in at : TRUE][2]

\* the deployed ingress rules that no expected rule matches
UnexpectedRules ==
    {j \in DOMAIN ObservedIn :
        ~\E i \in DOMAIN ExpectedIn :
            EquivalentIfSpecified(ExpectedIn[i], ObservedIn[j])}

\* the expected ingress rules that no deployed rule matches
MissingRules ==
    {i \in DOMAIN ExpectedIn :
        ~\E j \in DOMAIN ObservedIn :
            EquivalentIfSpecified(ExpectedIn[i], ObservedIn[j])}

\* the warnings that say this port is open to the internet
OpenPortReports(port) ==
    LET w == validation_results.warnings
    IN  Cardinality({k \in DOMAIN w : /\ w[k][1] = "is open to internet"
                                      /\ w[k][3] = port})

\* the deployed ingress rules whose range holds the port, open to 0.0.0.0/0
RulesOpenOn(port) ==
    {j \in DOMAIN ObservedIn :
        /\ "FromPort" \in DOMAIN ObservedIn[j]
        /\ "ToPort" \in DOMAIN ObservedIn[j]
        /\ ObservedIn[j].FromPort <= port
        /\ port <= ObservedIn[j].ToPort
        /\ Open \in Sources(ObservedIn[j])}

\* C17: once the ingress validation has run, every deployed ingress rule that
\* no expected rule matches is reported as unexpected, and no other is: the
\* number of additional rules reported is the number of such rules, whatever
\* the lengths of the two lists.
C17_UnexpectedReported ==
    Ran(2) => AdditionalReported = Cardinality(UnexpectedRules)

\* C18: no false positives. When every expected ingress rule matches a
\* deployed rule and every deployed rule matches an expected one (the two
\* lists are equal as sets, whatever their order or repetitions), the ingress
\* validation records no missing rule and no additional-rule warning.
C18_NoFalsePositives ==
    (Ran(2) /\ MissingRules = {} /\ UnexpectedRules = {}) =>
        /\ Count(validation_results.failed, "Ingress rule not found") = 0
        /\ Count(validation_results.warnings,
                 "additional ingress rule(s) found") = 0

\* C19: once the best-practices check has run, every deployed ingress rule
\* whose port range holds one of the ports 22, 3389, 3306, 5432, 1433, 27017,
\* 6379 and whose sources hold 0.0.0.0/0 has its open-to-internet warning for
\* that port, ranges starting at port 0 included.
C19_SensitivePortsFlagged ==
    Ran(5) =>
        \A port \in {22, 3389, 3306, 5432, 1433, 27017, 6379} :
            OpenPortReports(port) >= Cardinality(RulesOpenOn(port))

\* expected ingress {tcp 443-443 0.0.0.0/0}, deployed that rule and
\* {tcp 22-22 0.0.0.0/0}, and all six validations have run
Scenario ==
    /\ ExpectedIn = <<e_https>>
    /\ SeqToSet(ObservedIn) = {o_https, o_ssh}
    /\ Len(ObservedIn) = 2

ScenarioOutcomes ==
    /\ Count(validation_results.passed, "Ingress rule found") = 1
    /\ Count(validation_results.failed, "Ingress rule not found") = 0
    /\ AdditionalReported = 1
    /\ OpenPortReports(22) = 1

\* C20 as stated: in the scenario the validation yields one Matched, one
\* Unexpected and a sensitive-port finding for port 22, and the verdict of
\* run_all_validations is failed.
C20_ScenarioVerdictFailed ==
    (Scenario /\ Ran(6) /\ v_pc = "returned") =>
        ScenarioOutcomes /\ v_success = "False"

\* C20 amended: in the scenario the validation yields one Matched, one
\* additional-rule warning and one open-to-internet warning for port 22; the
\* findings are warnings, the best-practices check returns True, and the
\* verdict is failed only when the outputs validation recorded a failure.
C20_ScenarioPassesWithWarnings ==
    Scenario =>
        /\ Ran(5) => /\ ScenarioOutcomes
                     /\ v_results[5]
                     /\ \A k \in 1..5 : v_results[k]
        /\ (Ran(6) /\ v_pc = "returned") =>
               /\ v_success = "False" <=> Len(validation_results.failed) > 0
               /\ \A k \in DOMAIN validation_results.failed :
                      validation_results.failed[k][1] \in
                          {"Output security_group_id mismatch",
                           "Output security_group_name mismatch"}

C20_Witness ==
    /\ Scenario
    /\ v_pc = "returned"
    /\ ScenarioOutcomes
    /\ v_success = "True"
    /\ v_banner = "All validations passed with warnings"

----------------------------------------------------------------------------
(* Properties of the tag comparison and of the verdict *)

ExpectedTagList == Get(expected_config, "tags", <<>>)
ObservedTagList == Get(aws, "Tags", <<>>)

\* the deployed group has a tag with this key
TagPresent(key) == \E j \in DOMAIN ObservedTagList : ObservedTagList[j].Key = key

\* the deployed group has this key with this value
TagEqual(key, value) ==
    \E j \in DOMAIN ObservedTagList :
        ObservedTagList[j].Key = key /\ ObservedTagList[j].Value = value

\* C21: once the tag validation has run, every expected (key, value) pair is
\* classified in exactly one way: a Matched message iff the key is deployed
\* with an equal value, a value-mismatch message iff the key is deployed with
\* a different value (an empty one included), a Missing failure iff the key
\* is not deployed. Deployed tags that are not expected add no failure.
C21_TagClassification ==
    Ran(4) =>
        \A i \in DOMAIN ExpectedTagList :
            LET key   == ExpectedTagList[i].Key
                value == ExpectedTagList[i].Value
            IN  /\ Reported(validation_results.passed, "Tag matches", key)
                       <=> TagEqual(key, value)
                /\ Reported(validation_results.warnings, "Tag differs", key)
                       <=> (TagPresent(key) /\ ~TagEqual(key, value))
                /\ Reported(validation_results.failed, "Tag missing", key)
                       <=> ~TagPresent(key)

\* C22 as stated: a tag value mismatch fails the run. When an expected key is
\* deployed with a different value, run_all_validations returns failure.
C22_TagMismatchFailsRun ==
    (/\ Ran(6)
     /\ v_pc = "returned"
     /\ \E i \in DOMAIN ExpectedTagList :
           /\ TagPresent(ExpectedTagList[i].Key)
           /\ ~TagEqual(ExpectedTagList[i].Key, ExpectedTagList[i].Value))
    => v_success = "False"

\* every expected tag is deployed with some non-empty value
TagsAllDeployed ==
    \A i \in DOMAIN ExpectedTagList :
        \E j \in DOMAIN ObservedTagList :
            /\ ObservedTagList[j].Key = ExpectedTagList[i].Key
            /\ ObservedTagList[j].Value # ""

\* C22 amended: a tag value mismatch is a warning and does not fail the run.
\* When every expected key is deployed with an equal or a different
\* non-empty value, each difference is recorded as a "differs" warning, the
\* tag validation records no failure and, no failure being recorded before
\* it, returns True; the run then fails only if the outputs validation does.
C22_TagMismatchWarns ==
    (Ran(4) /\ TagsAllDeployed) =>
        /\ \A i \in DOMAIN ExpectedTagList :
              Reported(validation_results.warnings, "Tag differs",
                       ExpectedTagList[i].Key)
                 <=> ~TagEqual(ExpectedTagList[i].Key, ExpectedTagList[i].Value)
        /\ Count(validation_results.failed, "Tag missing") = 0
        /\ (v_results[1] /\ v_results[2] /\ v_results[3]) => v_results[4]
        /\ (/\ Ran(6)
            /\ v_pc = "returned"
            /\ v_results[1] /\ v_results[2] /\ v_results[3]
            /\ v_results[6]) => v_success = "True"

\* expected Environment=prod, deployed Environment=staging: one warning, and
\* the run returns success
C22_Witness ==
    /\ v_pc = "returned"
    /\ ExpectedTagList = <<Tag("Environment", "prod")>>
    /\ ObservedTagList = <<Tag("Environment", "staging")>>
    /\ Reported(validation_results.warnings, "Tag differs", "Environment")
    /\ v_success = "True"
    /\ v_banner = "All validations passed with warnings"

\* C23: verdict rule. After the security group has been fetched and the six
\* validations have run, run_all_validations returns failure iff at least
\* one failure was recorded; warnings, in any number, do not change it.
C23_VerdictIffFailureRecorded ==
    (Ran(6) /\ v_pc = "returned") =>
        (v_success = "False" <=> Len(validation_results.failed) > 0)

\* a run with several warnings and no failure returns success
C23_Witness ==
    /\ Ran(6)
    /\ v_pc = "returned"
    /\ Len(validation_results.warnings) >= 3
    /\ Len(validation_results.failed) = 0
    /\ v_success = "True"

----------------------------------------------------------------------------
(* Properties of the policy checks *)

\* the deployed ingress rules of protocol all (-1) open to 0.0.0.0/0
AllProtocolOpenRules ==
    {j \in DOMAIN ObservedIn :
        /\ Get(ObservedIn[j], "IpProtocol", None) = "-1"
        /\ Open \in Sources(ObservedIn[j])}

\* C24 as stated: a rule of protocol all (-1) covers all ports for the policy
\* checks.
\* Once the best-practices check has run, every deployed ingress rule of
\* protocol all open to 0.0.0.0/0 has an open-to-internet warning for each of
\* the sensitive ports, although it carries no port range.
C24_AllProtocolCoversAllPorts ==
    Ran(5) =>
        \A port \in {22, 3389, 3306, 5432, 1433, 27017, 6379} :
            OpenPortReports(port) >= Cardinality(AllProtocolOpenRules)

\* C24 amended: a rule of protocol all (-1) carries no port range and is
\* skipped by the sensitive-port check: the open-to-internet warnings of a
\* port are never more than the deployed rules whose own range holds the
\* port. Such a rule open to 0.0.0.0/0 is flagged by the all-protocol check.
C24_AllProtocolSkippedBySensitivePorts ==
    Ran(5) =>
        /\ \A k \in DOMAIN sensitive_ports :
              OpenPortReports(sensitive_ports[k].port)
                  <= Cardinality(RulesOpenOn(sensitive_ports[k].port))
        /\ Count(validation_results.warnings,
                 "All protocols allowed from internet")
               >= Cardinality(AllProtocolOpenRules)

\* an all-protocol rule open to the internet: no port warning, one
\* all-protocol warning
C24_Witness ==
    /\ Ran(5)
    /\ ObservedIn = <<o_all>>
    /\ Count(validation_results.warnings, "is open to internet") = 0
    /\ Count(validation_results.warnings,
             "All protocols allowed from internet") = 1

\* C25: all-protocol policy. Once the best-practices check has run, the
\* "All protocols allowed from internet" warnings are as many as the deployed
\* ingress rules of protocol all (-1) whose sources hold 0.0.0.0/0: each such
\* rule is flagged, and no rule of a specific protocol or of a restricted
\* source is.
C25_AllProtocolFlagged ==
    Ran(5) =>
        Count(validation_results.warnings, "All protocols allowed from internet")
            = Cardinality(AllProtocolOpenRules)

\* an all-protocol rule open to the internet next to a restricted one
C25_Witness ==
    /\ Ran(5)
    /\ SeqToSet(ObservedIn) = {o_all, o_all_private}
    /\ Count(validation_results.warnings,
             "All protocols allowed from internet") = 1

----------------------------------------------------------------------------
(* Properties of a validation run as a whole *)

\* C27: monotonic verdict. In every step of a validation run the recorded
\* failures are kept and only grow, and once a failure is recorded
\* run_all_validations does not return success.
C27_MonotonicVerdict ==
    [][/\ Len(validation_results'.failed) >= Len(validation_results.failed)
       /\ SubSeq(validation_results'.failed, 1, Len(validation_results.failed))
              = validation_results.failed
       /\ Len(validation_results.failed) > 0 => v_success' # "True"]_vars

\* the first validation recorded a failure, the last one returned True, and
\* the run returned failure
C27_Witness ==
    /\ Ran(6)
    /\ v_pc = "returned"
    /\ ~v_results[1]
    /\ v_results[6]
    /\ v_success = "False"

\* C28: the compliance checks are stateless. What validate_ingress_rules,
\* validate_egress_rules and validate_tags return depends only on their own
\* comparison: each returns True iff it recorded no failure of its own,
\* whatever the validations before it recorded.
C28_ChecksStateless ==
    /\ Ran(2) => (v_results[2] <=>
                    Count(validation_results.failed, "Ingress rule not found") = 0)
    /\ Ran(3) => (v_results[3] <=>
                    Count(validation_results.failed, "Egress rule not found") = 0)
    /\ Ran(4) => (v_results[4] <=>
                    Count(validation_results.failed, "Tag missing") = 0)

Perms(s) ==
    {p \in [DOMAIN s -> DOMAIN s] : \A i, j \in DOMAIN s : p[i] = p[j] => i = j}

Permuted(s, p) == [i \in DOMAIN s |-> s[p[i]]]

\* C29: set-order independence. What the ingress validation and the policy
\* checks have recorded, when each has just run, is what they compute for
\* every permutation of the deployed ingress list: the same expected rules
\* found, the same missing, and the same numbers of additional-rule,
\* open-port and all-protocol warnings.
C29_OrderIndependence ==
    /\ Len(v_results) = 2 =>
          \A p \in Perms(ObservedIn) :
             LET o == Permuted(ObservedIn, p)
             IN  /\ \A i \in DOMAIN ExpectedIn :
                       /\ Reported(validation_results.passed,
                                   "Ingress rule found", i)
                             <=> find_matching_ingress_rule(ExpectedIn[i], o)
                       /\ Reported(validation_results.failed,
                                   "Ingress rule not found", i)
                             <=> ~find_matching_ingress_rule(ExpectedIn[i], o)
                 /\ Count(validation_results.warnings,
                          "additional ingress rule(s) found")
                        = Len(additional_ingress(ExpectedIn, o))
    /\ Len(v_results) = 5 =>
          \A p \in Perms(ObservedIn) :
             LET o == Permuted(ObservedIn, p)
             IN  /\ Count(validation_results.warnings, "is open to internet")
                        = Len(sensitive_warnings(o))
                 /\ Count(validation_results.warnings,
                          "All protocols allowed from internet")
                        = Len(all_protocol_warnings(o))

\* the expected rule is matched by the second deployed rule
C29_Witness ==
    /\ Len(v_results) = 5
    /\ ExpectedIn = <<e_https>>
    /\ ObservedIn = <<o_ssh, o_https>>
    /\ Reported(validation_results.passed, "Ingress rule found", 1)
    /\ Count(validation_results.warnings, "is open to internet") = 1

----------------------------------------------------------------------------
(* Properties of the integration tests *)

\* C26: excessive-port-range policy. Once test_no_overly_permissive_ingress
\* has run, its "Large port range" warnings are as many as the deployed
\* ingress rules with toPort - fromPort strictly greater than 1000 (a
\* difference of exactly 1000 is not flagged), and the test has passed.
C26_ExcessivePortRange ==
    t_outcome["test_no_overly_permissive_ingress"] \notin {"none", "error"} =>
        /\ Count(t_printed["test_no_overly_permissive_ingress"],
                 "Large port range")
              = Cardinality({j \in DOMAIN ObservedIn :
                    /\ "FromPort" \in DOMAIN ObservedIn[j]
                    /\ "ToPort" \in DOMAIN ObservedIn[j]
                    /\ ObservedIn[j].ToPort - ObservedIn[j].FromPort > 1000})
        /\ t_outcome["test_no_overly_permissive_ingress"] = "passed"

\* a range of width 1000 next to one of width 1001: one warning, test passed
C26_Witness ==
    /\ SeqToSet(ObservedIn) = {o_range_1000, o_range_1001}
    /\ Count(t_printed["test_no_overly_permissive_ingress"],
             "Large port range") = 1
    /\ t_outcome["test_no_overly_permissive_ingress"] = "passed"

----------------------------------------------------------------------------
(* Properties of the config validator *)

\* the rule has the four required fields
Complete(rule) ==
    {"from_port", "to_port", "protocol", "cidr_blocks"} \subseteq DOMAIN rule

\* self.errors holds an error of validate_ingress_rules about the i-th rule
IngressErrorAbout(i) ==
    \E k \in DOMAIN c_errors :
        /\ c_errors[k][1] \in {"Missing fields", "from_port > to_port"}
        /\ c_errors[k][2] = i

\* C30 as stated: malformed rules are rejected. Once validate_ingress_rules
\* has returned, every complete rule whose protocol is not one of tcp, udp,
\* icmp, all/-1, or whose from_port is greater than its to_port, has an error
\* recorded, and the validation has returned failure.
C30_MalformedRejected ==
    c_returned["validate_ingress_rules"] # "none" =>
        \A i \in DOMAIN c_ingress :
            (/\ Complete(c_ingress[i])
             /\ \/ c_ingress[i].protocol \notin {"tcp", "udp", "icmp", "all", "-1"}
                \/ c_ingress[i].from_port > c_ingress[i].to_port)
            => /\ IngressErrorAbout(i)
               /\ c_returned["validate_ingress_rules"] = "False"

\* C30 amended: a complete rule has an error recorded iff its from_port is
\* greater than its to_port, and the validation then returns failure; a
\* protocol other than tcp, udp, icmp, -1 is recorded as the warning
\* "Unusual protocol" only, and a validation that returns failure has
\* recorded an error.
C30_ReversedPortsRejected ==
    c_returned["validate_ingress_rules"] # "none" =>
        /\ \A i \in DOMAIN c_ingress :
              Complete(c_ingress[i]) =>
                 /\ IngressErrorAbout(i)
                       <=> c_ingress[i].from_port > c_ingress[i].to_port
                 /\ c_ingress[i].from_port > c_ingress[i].to_port
                       => c_returned["validate_ingress_rules"] = "False"
                 /\ Reported(c_warnings, "Unusual protocol", i)
                       <=> c_ingress[i].protocol \notin {"tcp", "udp", "icmp", "-1"}
        /\ c_returned["validate_ingress_rules"] = "False" => Len(c_errors) > 0

\* a rule of protocol gre alone: a warning, no error, and success
C30_Witness ==
    /\ c_ingress = <<r_unusual>>
    /\ c_returned["validate_ingress_rules"] = "True"
    /\ Reported(c_warnings, "Unusual protocol", 1)
    /\ c_errors = <<>>

----------------------------------------------------------------------------
(* Properties of the rule equivalence *)

\* a deployed rule written as an expected rule
AsExpected(o) ==
    [f \in {"protocol", "cidr_blocks"}
           \cup (IF "FromPort" \in DOMAIN o THEN {"from_port"} ELSE {})
           \cup (IF "ToPort" \in DOMAIN o THEN {"to_port"} ELSE {}) |->
        CASE f = "protocol"    -> o.IpProtocol
          [] f = "from_port"   -> o.FromPort
          [] f = "to_port"     -> o.ToPort
          [] f = "cidr_blocks" -> rule_cidrs(o)]

\* an expected rule written as a deployed rule
AsObserved(e) ==
    [IpProtocol |-> e.protocol, FromPort |-> e.from_port,
     ToPort |-> e.to_port, IpRanges |-> Ranges(Get(e, "cidr_blocks", <<>>))]

\* the comparison gives the same answer with the two rules exchanged
Symmetric(e, o) ==
    IngressRuleMatches(e, o) <=> IngressRuleMatches(AsExpected(o), AsObserved(e))

\* C33 as stated: equivalence symmetry. For every expected rule A and every
\* deployed rule B of a run, A matches B as (expected, observed) iff B matches
\* A as (expected, observed), also when A specifies no CIDR list.
C33_Symmetry ==
    \A i \in DOMAIN ExpectedIn : \A j \in DOMAIN ObservedIn :
        Symmetric(ExpectedIn[i], ObservedIn[j])

\* C33 amended: the comparison is symmetric for every expected rule that
\* specifies its CIDR list.
C33_SymmetryOnSpecifiedCidrs ==
    \A i \in DOMAIN ExpectedIn : \A j \in DOMAIN ObservedIn :
        "cidr_blocks" \in DOMAIN ExpectedIn[i]
            => Symmetric(ExpectedIn[i], ObservedIn[j])

\* two rules that list the same CIDRs in different orders match both ways
C33_Witness ==
    /\ Ran(2)
    /\ ExpectedIn = <<e_https_two>>
    /\ ObservedIn = <<o_https_two>>
    /\ Reported(validation_results.passed, "Ingress rule found", 1)
    /\ IngressRuleMatches(AsExpected(o_https_two), AsObserved(e_https_two))

----------------------------------------------------------------------------
(* Properties of the provisioning steps of phase 3 *)

ProvisionCmds == {"terraform init", "terraform plan", "terraform apply"}

\* the positions of the run inside phase 3, after its first step
InPhase3 == {"p3_plan", "p3_apply", "p3_output", "p3_tests"}

\* the step takes the command c of phase 3 as the next process call
Invokes(c) ==
    /\ Len(commands') = Len(commands) + 1
    /\ commands'[Len(commands')] = Cmd(P3, c)

\* the call before this step was c of phase 3, and it returned 0
JustReturnedZero(c) ==
    /\ last_call.phase = P3
    /\ last_call.cmd = c
    /\ last_call.returncode = 0

\* C34: phase 3 provisioning is strictly ordered and aborts on the first
\* failure. plan is invoked only right after init returned 0, apply only right
\* after plan returned 0, and the integration tests only after the output step
\* that itself follows an apply that returned 0; when init, plan or apply
\* returns nonzero the phase is marked failed and left, and no command of the
\* phase is invoked once it is marked failed.
C34_ProvisioningOrdered ==
    [][/\ Invokes("terraform plan") => JustReturnedZero("terraform init")
       /\ Invokes("terraform apply") => JustReturnedZero("terraform plan")
       /\ Invokes("terraform output") => JustReturnedZero("terraform apply")
       /\ Invokes("pytest") =>
             /\ last_call.phase = P3
             /\ last_call.cmd = "terraform output"
             /\ Cmd(P3, "terraform apply") \in SeqToSet(commands)
       /\ \A c \in ProvisionCmds :
             Invokes(c) /\ last_call'.returncode # 0 =>
                 /\ results'[P3].status = "failed"
                 /\ returned'[P3] = "False"
                 /\ pc' \notin InPhase3
       /\ \A c \in ProvisionCmds \cup {"terraform output", "pytest"} :
             Invokes(c) => Status(P3) # "failed"]_vars

\* the tests were invoked after the three provisioning steps
C34_Witness ==
    /\ Len(commands) >= 5
    /\ commands[Len(commands)] = Cmd(P3, "pytest")
    /\ \E i \in DOMAIN commands :
          /\ commands[i] = Cmd(P3, "terraform init")
          /\ commands[i + 1] = Cmd(P3, "terraform plan")
          /\ commands[i + 2] = Cmd(P3, "terraform apply")

----------------------------------------------------------------------------
(* Properties of the data dependency between phases 3 and 4 *)

P4 == "post_deployment"

\* C35: phase 4 depends on phase 3. A post_deployment status of passed or
\* failed implies that, in the same run, phase 3 was entered with integration
\* tests enabled, terraform apply was invoked and followed by the output step
\* (which C34 allows only after apply returned 0), and a non-empty security
\* group id was extracted; while no id is available phase 4 has invoked no
\* validation command.
C35_PostDeploymentNeedsDeployment ==
    /\ Status(P4) \in {"passed", "failed"} =>
          /\ P3 \in SeqToSet(entered)
          /\ PhaseEnabled(P3)
          /\ \E i \in DOMAIN commands :
                /\ commands[i] = Cmd(P3, "terraform apply")
                /\ i < Len(commands)
                /\ commands[i + 1] = Cmd(P3, "terraform output")
          /\ security_group_id \notin {None, ""}
    /\ security_group_id \in {None, ""} => CommandsOf(P4) = {}

\* the validation ran against a deployed group and failed
C35_Witness ==
    /\ Status(P4) = "failed"
    /\ security_group_id = "sg-0abc"
    /\ Cmd(P4, "validate_post_deployment.py") \in SeqToSet(commands)

----------------------------------------------------------------------------
(* Properties of the order of teardown and summary *)

Destroy == Cmd("cleanup", "terraform destroy")

\* every phase the loop entered has handed back a result or raised
EnteredPhasesFinished ==
    \A k \in DOMAIN entered : returned[entered[k]] # "none"

\* C36: teardown and reporting order. The destroy command, once issued, is the
\* last command of the run and every phase entered has finished; the final
\* summary has been printed only after the loop is over and, with cleanup
\* enabled, after the teardown attempt has returned.
C36_TeardownThenSummary ==
    /\ \A i \in DOMAIN commands :
          commands[i] = Destroy =>
              /\ i = Len(commands)
              /\ EnteredPhasesFinished
              /\ pc \in {"summary", "return", "exited"}
    /\ summary_prints > 0 =>
          /\ EnteredPhasesFinished
          /\ pc \in {"return", "exited"}
          /\ config.cleanup =>
                /\ cleanup_result # "none"
                /\ commands # <<>>
                /\ commands[Len(commands)] = Destroy

\* the summary was printed after a teardown that followed a failed phase
C36_Witness ==
    /\ summary_prints = 1
    /\ banner = "TESTS FAILED"
    /\ Len(commands) >= 2
    /\ commands[Len(commands)] = Destroy

----------------------------------------------------------------------------
(* Properties of the SSH restriction test *)

TestedRules == Get(aws, "IpPermissions", <<>>)

\* a deployed rule for exactly port 22 that lists the unrestricted source
OpenSshRule(rule) ==
    /\ Get(rule, "FromPort", NoPort) = 22
    /\ Get(rule, "ToPort", NoPort) = 22
    /\ \E k \in DOMAIN Get(rule, "IpRanges", <<>>) : rule.IpRanges[k].CidrIp = Open

\* C38: the SSH restriction test, once it has run, has failed whenever some
\* deployed ingress rule with FromPort = ToPort = 22 lists 0.0.0.0/0, at
\* whatever position among the port-22 rules.
C38_AnyOpenSshRuleFails ==
    LET t == "test_ssh_ingress_rule_restricted" IN
    (/\ t_outcome[t] \in {"passed", "failed"}
     /\ \E i \in DOMAIN TestedRules : OpenSshRule(TestedRules[i]))
        => t_outcome[t] = "failed"

----------------------------------------------------------------------------
(* Properties relating the three sensitive-port checks *)

SensitivePortSet == {22, 3389, 3306, 5432, 1433, 27017, 6379}

\* the static validation warned that rule i leaves port p open
ConfigFlags(i, p) ==
    \E k \in DOMAIN c_warnings :
        /\ c_warnings[k][1] = "Port open to internet"
        /\ c_warnings[k][2] = i
        /\ c_warnings[k][3] = p

\* the post-deployment validation warns about port p for the deployed rule
ValidatorFlags(rule, p) ==
    \E k \in DOMAIN sensitive_ports :
        /\ sensitive_ports[k].port = p
        /\ port_warnings(rule, sensitive_ports[k]) # <<>>

\* the integration test lists port p as a violation for the deployed rule
TestFlags(rule, p) ==
    \E k \in DOMAIN port_violations(rule) : port_violations(rule)[k][2] = p

\* C39: the three sensitive-port checks agree. For every well-formed rule the
\* static validation has gone through and every port of 22, 3389, 3306, 5432,
\* 1433, 27017, 6379, the static validation flags the port for the rule iff
\* the post-deployment validation flags it for the same rule as deployed iff
\* the integration test does.
C39_SensitivePortsAgree ==
    c_returned["validate_ingress_rules"] # "none" =>
        \A i \in DOMAIN c_ingress :
            missing_fields(c_ingress[i]) = <<>> =>
                \A p \in SensitivePortSet :
                    /\ ConfigFlags(i, p) <=> ValidatorFlags(AsObserved(c_ingress[i]), p)
                    /\ ConfigFlags(i, p) <=> TestFlags(AsObserved(c_ingress[i]), p)

----------------------------------------------------------------------------
(* Properties of the pre-deployment validation script *)

RequiredCmds == {"terraform fmt", "terraform init", "terraform validate",
                 "terraform plan"}

OptionalTests == {"test_security_scan_checkov", "test_tflint"}

\* the tests run_all_tests has called so far, in call order
TestsRun == [i \in DOMAIN f_results |-> f_results[i].test]

\* a rule of the configuration lacks a required field
SomeRuleMalformed ==
    \E i \in DOMAIN c_ingress : missing_fields(c_ingress[i]) # <<>>

\* C31: malformed rules are rejected before any cloud call. When a rule of the
\* configuration lacks a required field, the pre-deployment validation script
\* issues no terraform plan, does not return success or exit with 0, and by
\* the time it returns has reported the missing fields as an error.
C31_MalformedRejectedBeforeCloud ==
    SomeRuleMalformed =>
        /\ "terraform plan" \notin SeqToSet(f_commands)
        /\ f_returned # "True"
        /\ f_exit # 0
        /\ f_returned # "none" =>
              \E k \in DOMAIN c_errors : c_errors[k][1] = "Missing fields"

\* C32: optional tools are tolerated, required steps are not. Once
\* run_all_tests has returned: the checkov and tflint tests returned True
\* whatever the tools did; a nonzero exit of format, init, validate or plan
\* makes the return value False; and a return value of False always has a
\* cause in a required step (a nonzero exit, an invalid configuration or an
\* exception), never only the absence, exit code or findings of a tool.
C32_OptionalToolsTolerated ==
    f_returned # "none" =>
        /\ \A i \in DOMAIN f_results :
              f_results[i].test \in OptionalTests => f_results[i].result
        /\ (\E cmd \in RequiredCmds : <<cmd, "nonzero">> \in f_events)
              => f_returned = "False"
        /\ f_returned = "False" => \E e \in f_events : e[1] \in RequiredCmds

\* both tools misbehaved and the validation still returned True
C32_Witness ==
    /\ f_returned = "True"
    /\ <<"checkov", "nonzero">> \in f_events
    /\ <<"checkov", "findings">> \in f_events
    /\ <<"tflint", "absent">> \in f_events

\* C37: run_all_tests never short-circuits. The tests are called in the fixed
\* order format, init, validate, plan, checkov, tflint, variables, outputs,
\* each after the previous one whatever it returned or raised; when
\* run_all_tests returns all eight have been called, and it returns True
\* exactly when no error was recorded.
C37_NoShortCircuit ==
    /\ TestsRun = SubSeq(tests, 1, Len(f_results))
    /\ Len(f_results) < Len(tests) => f_pc = tests[Len(f_results) + 1]
    /\ f_returned # "none" =>
          /\ TestsRun = tests
          /\ f_returned = "True" <=> f_errors = <<>>

\* the first check failed, a later one raised, and all eight were called
C37_Witness ==
    /\ f_returned = "False"
    /\ Len(f_results) = 8
    /\ <<"terraform fmt", "nonzero">> \in f_events
    /\ <<"terraform validate", "raised">> \in f_events
    /\ f_results[8].result

====
